---- MODULE Spec2Model ----
(***************************************************************************)
(* cofer: the JSON-RPC dispatcher (mcp/server.rs), its handlers            *)
(* (mcp/handlers.rs) and the environment registry                          *)
(* (environment/registry.rs), run by concurrent tasks that share one       *)
(* registry and one container engine.                                      *)
(*                                                                         *)
(* A task is one caller: it either sends a payload to handle_request or    *)
(* calls a registry method directly.  Every .await of the code is a step   *)
(* boundary; a lock is taken in one step and its critical section runs,    *)
(* and releases it, in the next.  The container engine is external: each   *)
(* of its operations succeeds or fails nondeterministically.               *)
(*                                                                         *)
(* McpServer::run answers one payload at a time; Handler::handle and the   *)
(* registry are public and shared through Arc, so the model lets calls     *)
(* overlap, and the behaviours of the run loop are those in which they do  *)
(* not.                                                                    *)
(***************************************************************************)
EXTENDS Integers, Sequences, FiniteSets, TLC

\* ------------------------------------------------------------------ bounds
\* Calls started in one behaviour while requests are handled (Spec).
MaxOps == 2
\* Calls started in one behaviour of the registry's callers (SpecRegistry).
MaxCalls == 3
\* Values Utc::now() may return.
MaxClock == 2
\* Chunks a stream fed to read_message is made of (SpecFraming).
MaxChunks == 3
\* Frames, whole or broken, the client sends the server loop (SpecLoop).
MaxFrames == 2
\* Calls of the server's methods before and after a shutdown.
MaxServerCalls == 3
MaxCallerCalls == 3

Tasks == {"t1", "t2"}
EnvIds == {"e1", "e2"}
Timestamps == 1..MaxClock

\* ------------------------------------------------------------ JSON values
\* A JSON value is a tagged tuple; Absent is a key that is not there.
Absent == <<"absent">>
JNull == <<"null">>
JStr(s) == <<"str", s>>
JNum(n) == <<"num", n>>
JObj(o) == <<"obj", o>>
JArr(a) == <<"arr", a>>

\* Option::None of the code.
None == <<"none">>
Some(v) == <<"some", v>>
IsSome(o) == o[1] = "some"

\* Value::as_str
as_str(v) == IF v[1] = "str" THEN Some(v[2]) ELSE None
\* Value::get on params: None unless params is an object holding the key
ParamKeys == {"env_id", "project_root", "image", "env_vars", "mount_path", "ports", "command"}
get_param(params, k) == IF params[1] = "obj" THEN params[2][k] ELSE Absent

\* ------------------------------------------------------------ environment
Creating == <<"Creating">>
Running == <<"Running">>
Stopping == <<"Stopping">>
Stopped == <<"Stopped">>
Error(reason) == <<"Error", reason>>
EnvironmentStatus == {Creating, Running, Stopping, Stopped, Error("boom")}

\* #[derive(Debug)] on EnvironmentStatus
StatusDebug(s) == IF s[1] = "Error" THEN <<"Error(", s[2], ")">> ELSE <<s[1]>>

\* EnvironmentHandle::new
EnvironmentHandle_new(env_id, container_id, project_root, image, now) ==
    [env_id |-> env_id, container_id |-> container_id, project_root |-> project_root,
     mount_path |-> "/workdir", created_at |-> now, status |-> Creating,
     image |-> image, env_vars |-> {}]

\* EnvironmentHandle::set_status
set_status(h, s) == [h EXCEPT !.status = s]

\* EnvironmentHandle::add_env_vars: HashMap::extend, a later key replaces an
\* earlier one.  A map is a set of <<key, value>> pairs with distinct keys.
add_env_vars(h, vars) ==
    [h EXCEPT !.env_vars =
        {p \in h.env_vars : \A q \in vars : q[1] # p[1]} \cup vars]

\* DateTime::to_rfc3339 (the text of the instant)
to_rfc3339(ts) == <<"rfc3339", ts>>

Ok(v) == <<"Ok", v>>
Err(msg) == <<"Err", msg>>
IsOk(r) == r[1] = "Ok"

\* ---------------------------------------------------------------- registry
\* The HashMap<String, EnvironmentHandle> behind the RwLock: a function
\* from the registered ids to their handles.
MapInsert(m, k, v) == [x \in DOMAIN m \cup {k} |-> IF x = k THEN v ELSE m[x]]
MapRemove(m, k) == [x \in DOMAIN m \ {k} |-> m[x]]
EmptyMap == [x \in {} |-> None]

\* The registry's methods, as what each does to the map while it holds the
\* guard.  register and update test contains_key and then insert; clear
\* collects the values and then clears; the others are one map operation.
AlreadyExists(env_id) == Err(<<"Environment", env_id, "already exists">>)
NotFound(env_id) == Err(<<"Environment", env_id, "not found">>)

\* EnvironmentRegistry::register, lines 32-34: the duplicate check
register_check(envs, handle) ==
    IF handle.env_id \in DOMAIN envs THEN AlreadyExists(handle.env_id) ELSE Ok(<<>>)

\* An update that does not look for the id.
update_unchecked(envs, handle) == Ok(<<>>)

\* EnvironmentRegistry::update, lines 61-63
update_check(envs, handle) ==
    IF handle.env_id \notin DOMAIN envs THEN NotFound(handle.env_id) ELSE Ok(<<>>)

\* An insert that, for an id already stored, replaces the status alone.
insert_merging(envs, handle) ==
    MapInsert(envs, handle.env_id,
              IF handle.env_id \in DOMAIN envs
              THEN set_status(envs[handle.env_id], handle.status) ELSE handle)

\* An insert that stores the handle as running, whatever its status.
insert_running(envs, handle) == MapInsert(envs, handle.env_id, set_status(handle, Running))

\* envs.insert(env_id, handle) of register (line 38) and update (line 66)
insert(envs, handle) == MapInsert(envs, handle.env_id, handle)

\* EnvironmentRegistry::get
get(envs, env_id) ==
    IF env_id \in DOMAIN envs THEN Ok(envs[env_id]) ELSE NotFound(env_id)

\* A remove that returns the handle and leaves the entry.
remove_keeping(envs, env_id) ==
    IF env_id \in DOMAIN envs
    THEN [envs |-> envs, res |-> Ok(envs[env_id])]
    ELSE [envs |-> envs, res |-> NotFound(env_id)]

\* EnvironmentRegistry::remove
remove(envs, env_id) ==
    IF env_id \in DOMAIN envs
    THEN [envs |-> MapRemove(envs, env_id), res |-> Ok(envs[env_id])]
    ELSE [envs |-> envs, res |-> NotFound(env_id)]

\* EnvironmentRegistry::list (the ids, in no order)
list(envs) == Ok(DOMAIN envs)

\* EnvironmentRegistry::list_all, and line 98 of clear (the handles, in no order)
list_all(envs) == Ok({envs[k] : k \in DOMAIN envs})

\* EnvironmentRegistry::count
count(envs) == Ok(Cardinality(DOMAIN envs))

\* ------------------------------------------------------------------ errors
\* McpError constructors (mcp/types.rs); a message is its sequence of parts.
invalid_request(message) == [code |-> -32600, message |-> message, data |-> None]
method_not_found(method) ==
    [code |-> -32601, message |-> <<"Method">> \o method \o <<"not found">>, data |-> None]
invalid_params(message) == [code |-> -32602, message |-> message, data |-> None]
internal_error(message) == [code |-> -32603, message |-> message, data |-> None]

Contains(message, part) == \E i \in DOMAIN message : message[i] = part

\* ---------------------------------------------------------------- envelopes
\* Option<Value> fields: an absent key or null is None.
opt(v) == IF v = Absent \/ v = JNull THEN None ELSE Some(v)

\* A parser that defaults the fields the text lacks instead of failing.
from_str_lenient(input) ==
    IF ~input.json THEN <<"ParseError">>
    ELSE <<"Request", [jsonrpc |-> IF as_str(input.jsonrpc) = None THEN "2.0"
                                   ELSE as_str(input.jsonrpc)[2],
                       id |-> opt(input.id),
                       method |-> IF as_str(input.method) = None THEN ""
                                  ELSE as_str(input.method)[2],
                       params |-> opt(input.params)]>>

\* serde_json::from_str::<McpRequest>: the text must be a JSON object whose
\* jsonrpc and method are strings; id and params are Option<Value>, absent
\* or null giving None.
ParseError == <<"ParseError">>
from_str(input) ==
    IF ~input.json THEN ParseError
    ELSE IF as_str(input.jsonrpc) = None \/ as_str(input.method) = None THEN ParseError
    ELSE <<"Request", [jsonrpc |-> as_str(input.jsonrpc)[2], id |-> opt(input.id),
                       method |-> as_str(input.method)[2], params |-> opt(input.params)]>>

\* A response that never carries the request's id.
McpResponseNullId(id, result, error) ==
    [jsonrpc |-> "2.0", id |-> <<"none">>, result |-> result, error |-> error]

\* McpResponse: id, result and error are Options.
McpResponse(id, result, error) ==
    [jsonrpc |-> "2.0", id |-> id, result |-> result, error |-> error]

\* A routing table in which run_command was never registered.
HandlersWithoutRunCommand ==
    [m \in {"initialize", "create_environment", "watch-commit", "note-append", "up", "down"} |->
        CASE m = "initialize" -> "InitializeHandler"
          [] m = "create_environment" -> "CreateEnvironmentHandler"
          [] OTHER -> "UnimplementedHandler"]

\* McpServer::new: the routing table.
Handlers ==
    [m \in {"initialize", "create_environment", "run_command",
            "watch-commit", "note-append", "up", "down"} |->
        CASE m = "initialize" -> "InitializeHandler"
          [] m = "create_environment" -> "CreateEnvironmentHandler"
          [] m = "run_command" -> "RunCommandHandler"
          [] OTHER -> "UnimplementedHandler"]

\* InitializeHandler::handle
InitializeResult ==
    [protocolVersion |-> "0.1.0",
     serverInfo |-> [name |-> "cofer", version |-> "CARGO_PKG_VERSION"],
     capabilities |-> [tools |-> <<"create_environment", "run_command">>]]

\* UnimplementedHandler::handle (self.method is the name it is registered under)
UnimplementedError(method) ==
    method_not_found(<<"Method", method, "is not implemented">>)

\* Path::new(&project_root).exists()
ExistingPaths == {"/proj"}

\* The filter_map of env_vars: the entries of the object whose value is a string.
env_vars_of(v) ==
    IF v[1] = "obj" THEN {<<e[1], e[2][2]>> : e \in {x \in v[2] : x[2][1] = "str"}}
    ELSE {}

\* The filter_map of ports: the strings of the array, in order.
ports_of(v) ==
    IF v[1] = "arr" THEN SelectSeq(v[2], LAMBDA x : x[1] = "str") ELSE <<>>

strings_of(a) == [i \in DOMAIN a |-> a[i][2]]

\* The parameters taken without looking at the host's filesystem.
CreateParamsAnyPath(request) ==
    IF request.params = None THEN Err(invalid_params(<<"Missing parameters">>))
    ELSE LET params == request.params[2]
             env_id == as_str(get_param(params, "env_id"))
             project_root == as_str(get_param(params, "project_root"))
             image == as_str(get_param(params, "image"))
             mount_path == as_str(get_param(params, "mount_path"))
         IN IF env_id = None THEN Err(invalid_params(<<"Missing env_id">>))
            ELSE IF project_root = None THEN Err(invalid_params(<<"Missing project_root">>))
            ELSE IF image = None THEN Err(invalid_params(<<"Missing image">>))
            ELSE Ok([env_id |-> env_id[2], project_root |-> project_root[2],
                     image |-> image[2],
                     env_vars |-> env_vars_of(get_param(params, "env_vars")),
                     mount_path |-> IF mount_path = None THEN "/workdir" ELSE mount_path[2],
                     ports |-> strings_of(ports_of(get_param(params, "ports")))])

\* CreateEnvironmentHandler::handle, lines 56-105: the parameters, or the
\* error the handler returns before it touches the shared state.
CreateParams(request) ==
    IF request.params = None THEN Err(invalid_params(<<"Missing parameters">>))
    ELSE LET params == request.params[2]
             env_id == as_str(get_param(params, "env_id"))
             project_root == as_str(get_param(params, "project_root"))
             image == as_str(get_param(params, "image"))
             mount_path == as_str(get_param(params, "mount_path"))
         IN IF env_id = None THEN Err(invalid_params(<<"Missing env_id">>))
            ELSE IF project_root = None THEN Err(invalid_params(<<"Missing project_root">>))
            ELSE IF image = None THEN Err(invalid_params(<<"Missing image">>))
            ELSE IF project_root[2] \notin ExistingPaths
                 THEN Err(invalid_params(<<"Project root does not exist:", project_root[2]>>))
            ELSE Ok([env_id |-> env_id[2], project_root |-> project_root[2],
                     image |-> image[2],
                     env_vars |-> env_vars_of(get_param(params, "env_vars")),
                     mount_path |-> IF mount_path = None THEN "/workdir" ELSE mount_path[2],
                     ports |-> strings_of(ports_of(get_param(params, "ports")))])

\* RunCommandHandler::handle, lines 209-219
RunParams(request) ==
    IF request.params = None THEN Err(invalid_params(<<"Missing parameters">>))
    ELSE LET params == request.params[2]
             env_id == as_str(get_param(params, "env_id"))
             command == as_str(get_param(params, "command"))
         IN IF env_id = None THEN Err(invalid_params(<<"Missing env_id">>))
            ELSE IF command = None THEN Err(invalid_params(<<"Missing command">>))
            ELSE Ok([env_id |-> env_id[2], command |-> command[2]])

\* ------------------------------------------------------------------- inputs
Params(env_id, project_root, image, env_vars, mount_path, ports, command) ==
    JObj([env_id |-> env_id, project_root |-> project_root, image |-> image,
          env_vars |-> env_vars, mount_path |-> mount_path, ports |-> ports,
          command |-> command])

Envelope(jsonrpc, id, method, params) ==
    [json |-> TRUE, jsonrpc |-> jsonrpc, id |-> id, method |-> method, params |-> params]

\* A text that is not JSON at all.
Garbage == [json |-> FALSE, jsonrpc |-> Absent, id |-> Absent, method |-> Absent, params |-> Absent]

CreateParamSets ==
    {Params(JStr("e1"), JStr("/proj"), JStr("alpine:latest"), Absent, Absent, Absent, Absent),
     Params(JStr("e1"), JStr("/proj"), JStr("alpine:latest"),
            JObj({<<"K", JStr("v")>>, <<"N", JNum(1)>>}), JStr("/mnt"),
            JArr(<<JStr("8080"), JNum(1)>>), Absent),
     Params(JStr("e2"), JStr("/proj"), JStr("alpine:latest"), Absent, Absent, Absent, Absent),
     Params(Absent, JStr("/proj"), JStr("alpine:latest"), Absent, Absent, Absent, Absent),
     Params(JNum(1), JStr("/proj"), JStr("alpine:latest"), Absent, Absent, Absent, Absent),
     Params(JStr("e1"), Absent, JStr("alpine:latest"), Absent, Absent, Absent, Absent),
     Params(JStr("e1"), JStr("/proj"), Absent, Absent, Absent, Absent, Absent),
     Params(JStr("e1"), JStr("/nope"), JStr("alpine:latest"), Absent, Absent, Absent, Absent),
     Absent}

RunParamSets ==
    {Params(JStr("e1"), Absent, Absent, Absent, Absent, Absent, JStr("ls")),
     Params(Absent, Absent, Absent, Absent, Absent, Absent, JStr("ls")),
     Params(JStr("e1"), Absent, Absent, Absent, Absent, Absent, Absent),
     JNull}

\* The payloads callers send.  A set the actions draw from is written
\* {x : x \in ...} when it is a union, so that it is enumerated once.
Inputs ==
    {x : x \in
        {Envelope(JStr("2.0"), JNum(7), JStr("create_environment"), p) : p \in CreateParamSets}
        \cup {Envelope(JStr("2.0"), JNum(7), JStr("run_command"), p) : p \in RunParamSets}
        \cup {Envelope(JStr("2.0"), Absent, JStr("run_command"),
                       Params(JStr("e1"), Absent, Absent, Absent, Absent, Absent, JStr("ls")))}
        \cup {Envelope(JStr("2.0"), i, JStr("initialize"), Absent) : i \in {Absent, JStr("a")}}
        \cup {Envelope(JStr("2.0"), JNum(7), JStr(m), Absent) : m \in {"up", "watch-commit", "unknown_method"}}
        \cup {Envelope(JStr("1.0"), JNum(7), JStr("initialize"), Absent),
              Envelope(JStr("1.0"), Absent, JStr("unknown_method"), Absent),
              Envelope(Absent, JNum(7), JStr("initialize"), Absent),
              Envelope(JStr("2.0"), JNum(7), Absent, JObj([x \in ParamKeys |-> Absent])),
              Envelope(JNum(2), JNum(7), JStr("initialize"), Absent),
              Garbage}}

\* Handles a caller passes to register and update (their container ids are
\* not ones this engine assigned).
ApiHandles ==
    {x : x \in
        {set_status(EnvironmentHandle_new("e1", 91, "/test/path", "alpine:latest", 1), s) :
            s \in EnvironmentStatus}
        \cup {EnvironmentHandle_new("e2", 92, "/test/path", "alpine:latest", 1),
              add_env_vars(EnvironmentHandle_new("e1", 93, "/proj", "debian", 2), {<<"K", "w">>})}}

\* Direct calls of the registry's methods.
ApiCalls ==
    {x : x \in
        {<<"register", h>> : h \in ApiHandles} \cup {<<"update", h>> : h \in ApiHandles}
        \cup {<<"get", e>> : e \in EnvIds} \cup {<<"remove", e>> : e \in EnvIds}
        \cup {<<"list", None>>, <<"list_all", None>>, <<"clear", None>>, <<"count", None>>}}

\* The registry calls other holders of the registry make while requests are
\* handled.
SharedCalls ==
    {x : x \in
        {<<"register", set_status(EnvironmentHandle_new("e1", 91, "/test/path", "alpine:latest", 1), s)>> :
            s \in EnvironmentStatus}
        \cup {<<"remove", "e1">>, <<"clear", None>>}}

\* What the engine's exec may report.
ExecResults ==
    {Ok([exit_code |-> Some(0), stdout |-> "out", stderr |-> ""]),
     Ok([exit_code |-> None, stdout |-> "", stderr |-> "err"]),
     Err(<<"exec failed">>)}

\* ------------------------------------------------------------------ framing
\* A stream is a sequence of bytes; a byte is written as a one-character
\* string, and 0xC3 0xA9 are the two bytes of one non-ASCII character.
CR == "\r"
LF == "\n"
HeaderPrefix == <<"C", "o", "n", "t", "e", "n", "t", "-", "L", "e", "n", "g", "t", "h", ":", " ">>
DigitChars == <<"0", "1", "2", "3", "4", "5", "6", "7", "8", "9">>
Whitespace == {" ", "\t", CR, LF}

\* The operators below that walk a byte sequence are backed by functions
\* of the sequence (name_of), which take their argument as a value.
\* String::from_utf8 / the check read_line makes: no lead byte without its
\* continuation byte and no continuation byte without its lead.
valid_utf8_of[bytes \in Seq(STRING)] ==
    \A i \in DOMAIN bytes :
        /\ bytes[i] = "0xC3" => (i < Len(bytes) /\ bytes[i + 1] = "0xA9")
        /\ bytes[i] = "0xA9" => (i > 1 /\ bytes[i - 1] = "0xC3")
valid_utf8(bytes) == valid_utf8_of[bytes]

starts_with(line, prefix) ==
    Len(line) >= Len(prefix) /\ SubSeq(line, 1, Len(prefix)) = prefix

\* str::trim
RECURSIVE trim_start(_)
trim_start(line) ==
    IF line # <<>> /\ Head(line) \in Whitespace THEN trim_start(Tail(line)) ELSE line
RECURSIVE trim_end(_)
trim_end(line) ==
    IF line # <<>> /\ line[Len(line)] \in Whitespace
    THEN trim_end(SubSeq(line, 1, Len(line) - 1)) ELSE line
trim_of[line \in Seq(STRING)] == trim_end(trim_start(line))
trim(line) == trim_of[line]

\* str::parse::<usize>: decimal digits, after an optional "+".
DigitValue(c) == CHOOSE d \in 0..9 : DigitChars[d + 1] = c
IsDigit(c) == \E d \in 0..9 : DigitChars[d + 1] = c
RECURSIVE digits_value(_)
digits_value(ds) ==
    IF ds = <<>> THEN 0
    ELSE 10 * digits_value(SubSeq(ds, 1, Len(ds) - 1)) + DigitValue(ds[Len(ds)])
parse_usize_of[text \in Seq(STRING)] ==
    LET ds == IF text # <<>> /\ Head(text) = "+" THEN Tail(text) ELSE text IN
    IF ds # <<>> /\ \A i \in DOMAIN ds : IsDigit(ds[i]) THEN Ok(digits_value(ds))
    ELSE Err(<<"Invalid Content-Length value:">>)
parse_usize(text) == parse_usize_of[text]

\* usize's Display, as format! writes the length into the header.
RECURSIVE to_string(_)
to_string(n) ==
    IF n < 10 THEN <<DigitChars[n + 1]>>
    ELSE to_string(n \div 10) \o <<DigitChars[(n % 10) + 1]>>

\* The index of the first LF of a stream, or 0.
FirstLF(bytes) ==
    IF \E i \in DOMAIN bytes : bytes[i] = LF
    THEN CHOOSE i \in DOMAIN bytes : bytes[i] = LF /\ \A j \in 1..(i - 1) : bytes[j] # LF
    ELSE 0

\* AsyncBufReadExt::read_line: the bytes up to and including the first LF,
\* or all that is left; an error when they are not UTF-8.  eof tells whether
\* the end of the stream was met.
read_line(bytes) ==
    LET n == IF FirstLF(bytes) = 0 THEN Len(bytes) ELSE FirstLF(bytes)
        line == SubSeq(bytes, 1, n)
    IN [line |-> line, ok |-> valid_utf8(line),
        rest |-> SubSeq(bytes, n + 1, Len(bytes)), eof |-> FirstLF(bytes) = 0]

\* A payload taken as the rest of the current line, whatever its length.
read_payload_line(bytes, n) ==
    LET l == read_line(bytes) IN
    [result |-> Ok(Some(l.line)), rest |-> l.rest, eof |-> l.eof]

\* read_message, lines 165-170: read_exact of content_length bytes, then
\* String::from_utf8.
read_payload(bytes, n) ==
    IF Len(bytes) < n
    THEN [result |-> Err(<<"unexpected end of file">>), rest |-> <<>>, eof |-> TRUE]
    ELSE [result |-> IF valid_utf8(SubSeq(bytes, 1, n)) THEN Ok(Some(SubSeq(bytes, 1, n)))
                     ELSE Err(<<"invalid utf-8">>),
          rest |-> SubSeq(bytes, n + 1, Len(bytes)), eof |-> FALSE]

\* read_message, lines 155-163: lines are read until one is blank; the end
\* of the stream reads as an empty line.
skip_headers_of[bytes \in Seq(STRING), n \in Nat] ==
    LET l == read_line(bytes) IN
    IF ~l.ok THEN [result |-> Err(<<"invalid utf-8">>), rest |-> l.rest, eof |-> l.eof]
    ELSE IF trim(l.line) = <<>>
    THEN LET p == read_payload(l.rest, n) IN
         [result |-> p.result, rest |-> p.rest, eof |-> l.eof \/ p.eof]
    ELSE skip_headers_of[l.rest, n]
skip_headers(bytes, n) == skip_headers_of[bytes, n]

\* A reader that takes the first line for the Content-Length line and fails
\* on any other.
read_message_no_skip_of[bytes \in Seq(STRING)] ==
    LET l == read_line(bytes) IN
    IF ~l.ok THEN [result |-> Err(<<"invalid utf-8">>), rest |-> l.rest, eof |-> l.eof]
    ELSE IF l.line = <<>> THEN [result |-> Ok(None), rest |-> <<>>, eof |-> TRUE]
    ELSE IF starts_with(l.line, HeaderPrefix)
    THEN LET content_length ==
                parse_usize(trim(SubSeq(l.line, Len(HeaderPrefix) + 1, Len(l.line))))
         IN IF IsOk(content_length) THEN skip_headers(l.rest, content_length[2])
            ELSE [result |-> content_length, rest |-> l.rest, eof |-> l.eof]
    ELSE [result |-> Err(<<"Invalid Content-Length header">>), rest |-> l.rest, eof |-> l.eof]
read_message_no_skip(bytes) == read_message_no_skip_of[bytes]

\* read_message: Ok(Some(message)), Ok(None) or Err, with the bytes left in
\* the reader and whether the end of the stream was met on the way.
read_message_of[bytes \in Seq(STRING)] ==
    LET l == read_line(bytes) IN
    IF ~l.ok THEN [result |-> Err(<<"invalid utf-8">>), rest |-> l.rest, eof |-> l.eof]
    ELSE IF l.line = <<>> THEN [result |-> Ok(None), rest |-> <<>>, eof |-> TRUE]
    ELSE IF starts_with(l.line, HeaderPrefix)
    THEN LET content_length ==
                parse_usize(trim(SubSeq(l.line, Len(HeaderPrefix) + 1, Len(l.line))))
         IN IF IsOk(content_length) THEN skip_headers(l.rest, content_length[2])
            ELSE [result |-> content_length, rest |-> l.rest, eof |-> l.eof]
    ELSE read_message_of[l.rest]
read_message(bytes) == read_message_of[bytes]

\* format!("Content-Length: {}\r\n\r\n{}", payload.len(), payload)
Frame(payload) == HeaderPrefix \o to_string(Len(payload)) \o <<CR, LF, CR, LF>> \o payload

\* Payloads a client frames: empty, ASCII, a two-byte character, text with
\* line ends in it, and an abbreviated JSON text.
Payloads ==
    {<<>>, <<"a", "b">>, <<"0xC3", "0xA9">>, <<"a", LF, "b">>, <<CR, LF>>, <<"{", "i", "}">>}

\* What a stream is made of: whole frames and pieces of frames.
Chunks ==
    {Frame(payload) : payload \in Payloads}
    \cup {HeaderPrefix, SubSeq(HeaderPrefix, 1, 11), HeaderPrefix \o <<"2", CR, LF>>,
          <<"X", "-", "H", ":", " ", "1", CR, LF>>,
          <<"0">>, <<"2">>, <<"x">>, <<"a", "b">>, <<CR, LF>>, <<LF>>, <<"0xC3">>}

\* The streams of at most n chunks.
RECURSIVE StreamsOf(_)
StreamsOf(n) ==
    IF n = 0 THEN {<<>>}
    ELSE StreamsOf(n - 1) \cup {st \o c : st \in StreamsOf(n - 1), c \in Chunks}

\* The JSON texts sent to the server loop.  A text is abbreviated to three
\* bytes, braces around one byte that names the envelope; any other text is
\* not JSON.
Texts ==
    [tag \in {"i", "c", "r", "v", "m"} |->
        CASE tag = "i" -> Envelope(JStr("2.0"), JStr("a"), JStr("initialize"), Absent)
          [] tag = "c" -> Envelope(JStr("2.0"), JNum(7), JStr("create_environment"),
                                   Params(JStr("e1"), JStr("/proj"), JStr("alpine:latest"),
                                          Absent, Absent, Absent, Absent))
          [] tag = "r" -> Envelope(JStr("2.0"), JNum(7), JStr("run_command"),
                                   Params(JStr("e1"), Absent, Absent, Absent, Absent, Absent, JStr("ls")))
          [] tag = "v" -> Envelope(JStr("1.0"), JNum(7), JStr("initialize"), Absent)
          [] tag = "m" -> Envelope(JStr("2.0"), JNum(7), Absent, JObj([x \in ParamKeys |-> Absent]))]
Text(tag) == <<"{", tag, "}">>
\* What the message read stands for, as handle_request's input.
parse_text(message) ==
    IF \E tag \in DOMAIN Texts : message = Text(tag)
    THEN Texts[CHOOSE tag \in DOMAIN Texts : message = Text(tag)]
    ELSE Garbage

\* The payloads of the well-formed frames sent to the loop.
LoopPayloads == {x : x \in {Text(tag) : tag \in DOMAIN Texts} \cup {<<"x">>}}

\* What the client sends: well-formed frames, a frame whose length is not a
\* number, a frame whose payload is not UTF-8, and a frame cut short in its
\* payload or in its header.
LoopChunks ==
    {Frame(payload) : payload \in LoopPayloads}
    \cup {HeaderPrefix \o <<"x", CR, LF, CR, LF>> \o Text("i"),
          Frame(<<"0xC3">>),
          SubSeq(Frame(Text("i")), 1, Len(Frame(Text("i"))) - 1),
          SubSeq(Frame(Text("i")), 1, Len(HeaderPrefix) - 1)}

\* The sequences of at most n chunks.
RECURSIVE ChunkSeqs(_)
ChunkSeqs(n) ==
    IF n = 0 THEN {<<>>}
    ELSE ChunkSeqs(n - 1) \cup {Append(cs, c) : cs \in ChunkSeqs(n - 1), c \in LoopChunks}

\* The bytes of a sequence of chunks.
RECURSIVE Concat(_)
Concat(cs) == IF cs = <<>> THEN <<>> ELSE Head(cs) \o Concat(Tail(cs))

\* -------------------------------------------------------------------- state
VARIABLES
    registry,      \* EnvironmentRegistry.environments
    held,          \* held[t]: the lock guards task t holds
    containers,    \* the engine's containers: id -> "created" | "running"
    nextCid,       \* the next container id the engine assigns
    ops,           \* calls started
    pc,            \* pc[t]: where task t is in its call
    call,          \* call[t]: <<"rpc", input>>, <<"api", method, argument>> or <<"none">>
    cid,           \* cid[t]: container_id of the create_environment in progress
    hnd,           \* hnd[t]: the handle built (create) or fetched (run_command)
    resp,          \* resp[t]: what the call returned
    trace,         \* trace[t]: engine operations task t invoked in this call, in order,
                   \*   each with its arguments and, last, whether it succeeded
    wrote,         \* wrote[t]: whether task t changed the registry in this call
    invoked,       \* invoked[t]: the handler handle_request invoked in this call, or None
    returned,      \* returned[t]: what that handler returned (its Result), or None
    overlap,       \* overlap[t]: whether another task's call was in progress during this call
    regOk,         \* regOk[e]: successful register calls for e since e was last absent
    sent,          \* the chunks the client wrote to stdin, in order
    stream,        \* the bytes of stdin not yet read
    before,        \* the bytes of stdin not yet read when read_message was last called
    msg,           \* what read_message last returned, or None
    lpc,           \* where McpServer::run is: "off" while it is not running
    inbox,         \* the messages read_message has returned, in order
    out,           \* the responses written to stdout, in order, each with whether it is flushed
    shutdown_rx,   \* the value of the shutdown channel
    ran,           \* what run returned, or None
    hist,          \* the registry calls that have returned, in the order they took effect,
                   \*   each with its result and the map it left
    gitignore,     \* the content of <project_root>/.gitignore, or None when there is no such file
    applied,       \* the content ensure_gitignore_has_cofer left, one entry for each call
    image,         \* the image reference given to parse_image_tag
    name_tag,      \* what parse_image_tag returned, or None
    git,           \* the repositories under the project root
    gitlog         \* the calls of the git module that have returned, with their results

regVars == <<registry, held, regOk>>
engVars == <<containers, nextCid>>
libVars == <<gitignore, applied, image, name_tag, git, gitlog>>
loopVars == <<sent, stream, before, msg, lpc, inbox, out, shutdown_rx, ran, hist, libVars>>
taskVars == <<ops, pc, call, cid, hnd, resp, trace, wrote, invoked, returned, overlap>>
vars == <<registry, held, regOk, containers, nextCid, ops, pc, call, cid, hnd, resp, trace, wrote,
          invoked, returned, overlap, sent, stream, before, msg, lpc, inbox, out, shutdown_rx, ran, hist,
          gitignore, applied, image, name_tag, git, gitlog>>

\* The server state after McpServer::new, the engine and the callers.
InitTasks ==
    /\ registry = EmptyMap
    /\ held = [t \in Tasks |-> {}]
    /\ regOk = [e \in EnvIds |-> 0]
    /\ containers = EmptyMap
    /\ nextCid = 1
    /\ ops = 0
    /\ pc = [t \in Tasks |-> "idle"]
    /\ call = [t \in Tasks |-> <<"none">>]
    /\ cid = [t \in Tasks |-> None]
    /\ hnd = [t \in Tasks |-> None]
    /\ resp = [t \in Tasks |-> None]
    /\ trace = [t \in Tasks |-> <<>>]
    /\ wrote = [t \in Tasks |-> FALSE]
    /\ invoked = [t \in Tasks |-> None]
    /\ returned = [t \in Tasks |-> None]
    /\ overlap = [t \in Tasks |-> FALSE]
    /\ hist = <<>>

\* McpServer::run has not been called.
InitNoLoop ==
    /\ sent = <<>> /\ stream = <<>> /\ before = <<>> /\ msg = None
    /\ lpc = "off"
    /\ inbox = <<>> /\ out = <<>>
    /\ shutdown_rx = FALSE
    /\ ran = None

\* No function of the git and image modules has been called.
NoGitignore == gitignore = None /\ applied = <<>>
NoImage == image = <<>> /\ name_tag = None
NoGit == git = None /\ gitlog = <<>>
InitNoLib == NoGitignore /\ NoImage /\ NoGit

Init == InitTasks /\ InitNoLoop /\ InitNoLib

\* The request a task's input parsed to, and its handler's parameters.
Request(t) == from_str(call[t][2])[2]
Method(t) == Handlers[Request(t).method]
Args(t) ==
    IF Method(t) = "CreateEnvironmentHandler" THEN CreateParams(Request(t))[2]
    ELSE RunParams(Request(t))[2]

\* A wrapper that answers every handler error with a generic internal error.
WrapOpaque(id, outcome) ==
    IF IsOk(outcome) THEN McpResponse(id, Some(outcome[2]), None)
    ELSE McpResponse(id, None, Some(internal_error(<<"handler failed">>)))

\* handle_request, lines 212-225: the handler's outcome wrapped in a response.
Wrap(id, outcome) ==
    IF IsOk(outcome) THEN McpResponse(id, Some(outcome[2]), None)
    ELSE McpResponse(id, None, Some(outcome[2]))
Respond(t, outcome) == Wrap(Request(t).id, outcome)

\* RwLock: a reader waits for the writer, a writer for everyone.
CanRead(t, lock) == \A u \in Tasks \ {t} : <<lock, "write">> \notin held[u]
CanWrite(t, lock) ==
    \A u \in Tasks \ {t} : <<lock, "write">> \notin held[u] /\ <<lock, "read">> \notin held[u]

\* Task t, holding the guard, leaves the map as envs; registered is the id
\* a register call has just inserted, or None.
RegistryWrite(t, envs, registered) ==
    /\ registry' = envs
    /\ wrote' = [wrote EXCEPT ![t] = wrote[t] \/ envs # registry]
    /\ regOk' = [e \in EnvIds |->
                    IF e \notin DOMAIN envs THEN 0
                    ELSE IF registered = Some(e) THEN regOk[e] + 1
                    ELSE regOk[e]]

Release(t) == held' = [held EXCEPT ![t] = {}]

\* ------------------------------------------------------------ handle_request
\* A request answered by handle_request itself: no handler is invoked.
Unrouted(response) == [handler |-> None, returned |-> None, response |-> Some(response)]

\* Handler::handle up to the handler's first .await: the Result it returns
\* without suspending, or None when it goes on.
Handler_handle(h, request) ==
    CASE h = "InitializeHandler" -> Some(Ok(InitializeResult))
      [] h = "UnimplementedHandler" -> Some(Err(UnimplementedError(request.method)))
      [] h = "CreateEnvironmentHandler" ->
            IF IsOk(CreateParams(request)) THEN None ELSE Some(CreateParams(request))
      [] h = "RunCommandHandler" ->
            IF IsOk(RunParams(request)) THEN None ELSE Some(RunParams(request))

\* handle_request, lines 198-225: the method is looked up and its handler run.
Dispatch(request) ==
    IF request.method \notin DOMAIN Handlers
    THEN Unrouted(McpResponse(request.id, None, Some(method_not_found(<<request.method>>))))
    ELSE LET h == Handlers[request.method]
             outcome == Handler_handle(h, request)
         IN [handler |-> Some(h), returned |-> outcome,
             response |-> IF IsSome(outcome) THEN Some(Wrap(request.id, outcome[2])) ELSE None]

\* A dispatcher that looks the method up before it checks the version.
handle_request_lookup_first(input) ==
    LET parsed == from_str(input) IN
    IF parsed = <<"ParseError">>
    THEN Unrouted(McpResponse(None, None, Some(invalid_request(<<"Invalid JSON:", "serde error">>))))
    ELSE IF parsed[2].method \notin DOMAIN Handlers
    THEN Dispatch(parsed[2])
    ELSE IF parsed[2].jsonrpc # "2.0"
    THEN Unrouted(McpResponse(parsed[2].id, None,
                              Some(invalid_request(<<"Invalid JSON-RPC version">>))))
    ELSE Dispatch(parsed[2])

\* handle_request up to the handler's first .await: the response, when the
\* request is answered without suspending, or the handler that goes on.
handle_request(input) ==
    LET parsed == from_str(input) IN
    IF parsed = ParseError
    THEN Unrouted(McpResponse(None, None, Some(invalid_request(<<"Invalid JSON:", "serde error">>))))
    ELSE IF parsed[2].jsonrpc # "2.0"
    THEN Unrouted(McpResponse(parsed[2].id, None,
                              Some(invalid_request(<<"Invalid JSON-RPC version">>))))
    ELSE Dispatch(parsed[2])

Idle(t) == pc[t] \in {"idle", "done"}

\* Task t starts a call: it overlaps the calls in progress.  done tells
\* whether the call returns in this same step.
Started(t, done) ==
    LET busy == {u \in Tasks \ {t} : ~Idle(u)} IN
    overlap' = [u \in Tasks |->
                    IF u = t THEN ~done /\ busy # {}
                    ELSE IF u \in busy /\ ~done THEN TRUE
                    ELSE overlap[u]]

Finish(t, response) ==
    /\ pc' = [pc EXCEPT ![t] = "done"]
    /\ resp' = [resp EXCEPT ![t] = Some(response)]

\* The handler of task t returns outcome and handle_request its response.
Return(t, outcome) ==
    /\ Finish(t, Respond(t, outcome))
    /\ returned' = [returned EXCEPT ![t] = Some(outcome)]

Log(t, event) == trace' = [trace EXCEPT ![t] = Append(trace[t], event)]

\* handle_request(input) is called in task t.  A handler that reaches
\* state.read().await takes the server state's read guard (nothing ever
\* write-locks the state).
HandleRequestOf(t, input) ==
    /\ Idle(t)
    /\ ops' = ops + 1
    /\ LET r == handle_request(input) IN
        /\ call' = [call EXCEPT ![t] = <<"rpc", input>>]
        /\ invoked' = [invoked EXCEPT ![t] = r.handler]
        /\ returned' = [returned EXCEPT ![t] = r.returned]
        /\ Started(t, IsSome(r.response))
        /\ IF IsSome(r.response)
           THEN /\ pc' = [pc EXCEPT ![t] = "done"]
                /\ resp' = [resp EXCEPT ![t] = r.response]
                /\ held' = held
           ELSE /\ pc' = [pc EXCEPT ![t] = "clone_registry"]
                /\ resp' = [resp EXCEPT ![t] = None]
                /\ held' = [held EXCEPT ![t] = {<<"state", "read">>}]
    /\ cid' = [cid EXCEPT ![t] = None]
    /\ hnd' = [hnd EXCEPT ![t] = None]
    /\ trace' = [trace EXCEPT ![t] = <<>>]
    /\ wrote' = [wrote EXCEPT ![t] = FALSE]
    /\ UNCHANGED <<registry, regOk, engVars>>

\* A caller sends one of the payloads to handle_request.
HandleRequest(t) ==
    /\ ops < MaxOps
    /\ \E input \in Inputs : HandleRequestOf(t, input)
    /\ UNCHANGED loopVars

\* let registry = { state.read().await; state_guard.registry.clone() }: the
\* guard is dropped at the end of the block.
CloneRegistry(t) ==
    /\ pc[t] = "clone_registry"
    /\ held' = [held EXCEPT ![t] = {}]
    /\ pc' = [pc EXCEPT ![t] = "get_wait"]
    /\ UNCHANGED <<registry, regOk, engVars, ops, call, cid, hnd, resp, returned, trace, wrote, invoked, overlap, loopVars>>

\* registry.get(&env_id).await: self.environments.read().await
GetAcquire(t) ==
    /\ pc[t] = "get_wait"
    /\ CanRead(t, "registry")
    /\ held' = [held EXCEPT ![t] = {<<"registry", "read">>}]
    /\ pc' = [pc EXCEPT ![t] = "get"]
    /\ UNCHANGED <<registry, regOk, engVars, ops, call, cid, hnd, resp, returned, trace, wrote, invoked, overlap, loopVars>>

\* A handler that goes on to the engine whatever the lookup found.
CreateWithoutPrecheck(t, found) ==
    /\ pc' = [pc EXCEPT ![t] = "connect"]
    /\ UNCHANGED <<resp, returned, hnd>>

\* CreateEnvironmentHandler, lines 113-116: the duplicate pre-check
CreatePrecheck(t, found) ==
    IF IsOk(found)
    THEN /\ Return(t, Err(invalid_params(
                <<"Environment", Args(t).env_id, "already exists">>)))
         /\ hnd' = hnd
    ELSE /\ pc' = [pc EXCEPT ![t] = "connect"]
         /\ UNCHANGED <<resp, returned, hnd>>

\* A lookup that reports a missing environment as an internal error.
RunLookupInternal(t, found) ==
    IF ~IsOk(found)
    THEN /\ Return(t, Err(internal_error(<<"Environment not found:">> \o found[2])))
         /\ hnd' = hnd
    ELSE IF found[2].status # Running
    THEN /\ Return(t, Err(invalid_request(
                <<"Environment", Args(t).env_id, "is not running (status:">>
                \o StatusDebug(found[2].status) \o <<")">>)))
         /\ hnd' = hnd
    ELSE /\ pc' = [pc EXCEPT ![t] = "connect"]
         /\ hnd' = [hnd EXCEPT ![t] = Some(found[2])]
         /\ UNCHANGED <<resp, returned>>

\* A lookup that runs the command whatever the environment's status.
RunLookupAnyStatus(t, found) ==
    IF ~IsOk(found)
    THEN /\ Return(t, Err(invalid_params(<<"Environment not found:">> \o found[2])))
         /\ hnd' = hnd
    ELSE /\ pc' = [pc EXCEPT ![t] = "connect"]
         /\ hnd' = [hnd EXCEPT ![t] = Some(found[2])]
         /\ UNCHANGED <<resp, returned>>

\* RunCommandHandler, lines 229-238: the lookup and the status check
RunLookup(t, found) ==
    IF ~IsOk(found)
    THEN /\ Return(t, Err(invalid_params(<<"Environment not found:">> \o found[2])))
         /\ hnd' = hnd
    ELSE IF found[2].status # Running
    THEN /\ Return(t, Err(invalid_request(
                <<"Environment", Args(t).env_id, "is not running (status:">>
                \o StatusDebug(found[2].status) \o <<")">>)))
         /\ hnd' = hnd
    ELSE /\ pc' = [pc EXCEPT ![t] = "connect"]
         /\ hnd' = [hnd EXCEPT ![t] = Some(found[2])]
         /\ UNCHANGED <<resp, returned>>

\* A lookup whose read guard outlives the call and is held while the handler
\* goes on.
GetCSHolding(t) ==
    /\ pc[t] = "get"
    /\ IF Method(t) = "CreateEnvironmentHandler"
       THEN CreatePrecheck(t, get(registry, Args(t).env_id))
       ELSE RunLookup(t, get(registry, Args(t).env_id))
    /\ held' = held
    /\ UNCHANGED <<registry, regOk, engVars, ops, call, cid, trace, wrote, invoked, overlap, loopVars>>

\* The critical section of registry.get and what the handler does with it.
GetCS(t) ==
    /\ pc[t] = "get"
    /\ IF Method(t) = "CreateEnvironmentHandler"
       THEN CreatePrecheck(t, get(registry, Args(t).env_id))
       ELSE RunLookup(t, get(registry, Args(t).env_id))
    /\ Release(t)
    /\ UNCHANGED <<registry, regOk, engVars, ops, call, cid, trace, wrote, invoked, overlap, loopVars>>

\* ------------------------------------------------------- container engine
EngineFailure == <<"engine error">>

\* A connection attempted a second time when the first fails.
ConnectRetrying(t) ==
    /\ pc[t] = "connect"
    /\ \E ok \in BOOLEAN :
        /\ Log(t, <<"connect", ok>>)
        /\ IF ok
           THEN /\ pc' = [pc EXCEPT ![t] =
                        IF Method(t) = "CreateEnvironmentHandler" THEN "ensure_image"
                        ELSE "exec_command"]
                /\ UNCHANGED <<resp, returned>>
           ELSE IF trace[t] = <<>>
           THEN UNCHANGED <<pc, resp, returned>>
           ELSE Return(t, Err(internal_error(
                    <<"Failed to connect to Podman:">> \o EngineFailure)))
    /\ UNCHANGED <<regVars, engVars, ops, call, cid, hnd, wrote, invoked, overlap, loopVars>>

\* PodmanClient::new().await (both handlers)
Connect(t) ==
    /\ pc[t] = "connect"
    /\ \E ok \in BOOLEAN :
        /\ Log(t, <<"connect", ok>>)
        /\ IF ok
           THEN /\ pc' = [pc EXCEPT ![t] =
                        IF Method(t) = "CreateEnvironmentHandler" THEN "ensure_image"
                        ELSE "exec_command"]
                /\ UNCHANGED <<resp, returned>>
           ELSE Return(t, Err(internal_error(
                    <<"Failed to connect to Podman:">> \o EngineFailure)))
    /\ UNCHANGED <<regVars, engVars, ops, call, cid, hnd, wrote, invoked, overlap, loopVars>>

\* An ensure_image whose failure is logged and not returned.
EnsureImageLenient(t) ==
    /\ pc[t] = "ensure_image"
    /\ \E ok \in BOOLEAN : Log(t, <<"ensure_image", Args(t).image, ok>>)
    /\ pc' = [pc EXCEPT ![t] = "create_container"]
    /\ UNCHANGED <<regVars, engVars, ops, call, cid, hnd, resp, returned, wrote, invoked, overlap, loopVars>>

\* podman.ensure_image(&image).await
EnsureImage(t) ==
    /\ pc[t] = "ensure_image"
    /\ \E ok \in BOOLEAN :
        /\ Log(t, <<"ensure_image", Args(t).image, ok>>)
        /\ IF ok
           THEN /\ pc' = [pc EXCEPT ![t] = "create_container"]
                /\ UNCHANGED <<resp, returned>>
           ELSE Return(t, Err(internal_error(
                    <<"Failed to ensure image:">> \o EngineFailure)))
    /\ UNCHANGED <<regVars, engVars, ops, call, cid, hnd, wrote, invoked, overlap, loopVars>>

\* podman.create_container(&env_id, &image, &project_root, &mount_path, env_vars).await
CreateContainer(t) ==
    /\ pc[t] = "create_container"
    /\ \E ok \in BOOLEAN :
        /\ Log(t, <<"create_container", Args(t).env_id, Args(t).image, Args(t).project_root,
                    Args(t).mount_path, Args(t).env_vars, IF ok THEN Some(nextCid) ELSE None, ok>>)
        /\ IF ok
           THEN /\ containers' = MapInsert(containers, nextCid, "created")
                /\ nextCid' = nextCid + 1
                /\ cid' = [cid EXCEPT ![t] = Some(nextCid)]
                /\ pc' = [pc EXCEPT ![t] = "start_container"]
                /\ UNCHANGED <<resp, returned>>
           ELSE /\ Return(t, Err(internal_error(
                    <<"Failed to create container:">> \o EngineFailure)))
                /\ UNCHANGED <<containers, nextCid, cid>>
    /\ UNCHANGED <<regVars, ops, call, hnd, wrote, invoked, overlap, loopVars>>

\* A handle left with the mount_path EnvironmentHandle::new gives it.
BuildHandleDefaultMount(args, container_id, now) ==
    LET h0 == EnvironmentHandle_new(args.env_id, container_id, args.project_root, args.image, now)
        h2 == IF args.env_vars # {} THEN add_env_vars(h0, args.env_vars) ELSE h0
    IN set_status(h2, Running)

\* A handle registered with the status EnvironmentHandle::new gave it.
BuildHandleCreating(args, container_id, now) ==
    LET h0 == EnvironmentHandle_new(args.env_id, container_id, args.project_root, args.image, now)
        h1 == [h0 EXCEPT !.mount_path = args.mount_path]
    IN IF args.env_vars # {} THEN add_env_vars(h1, args.env_vars) ELSE h1

\* handlers.rs lines 156-173: the handle create_environment registers
BuildHandle(args, container_id, now) ==
    LET h0 == EnvironmentHandle_new(args.env_id, container_id, args.project_root, args.image, now)
        h1 == [h0 EXCEPT !.mount_path = args.mount_path]
        h2 == IF args.env_vars # {} THEN add_env_vars(h1, args.env_vars) ELSE h1
    IN set_status(h2, Running)

\* A start whose failure is returned with the container left in place.
StartContainerNoCleanup(t) ==
    /\ pc[t] = "start_container"
    /\ \E ok \in BOOLEAN :
        /\ Log(t, <<"start_container", cid[t][2], ok>>)
        /\ IF ok
           THEN /\ containers' = [containers EXCEPT ![cid[t][2]] = "running"]
                /\ \E now \in Timestamps :
                    hnd' = [hnd EXCEPT ![t] = Some(BuildHandle(Args(t), cid[t][2], now))]
                /\ pc' = [pc EXCEPT ![t] = "register_wait"]
                /\ UNCHANGED <<resp, returned>>
           ELSE /\ Return(t, Err(internal_error(
                        <<"Failed to start container:">> \o EngineFailure)))
                /\ UNCHANGED <<containers, hnd>>
    /\ UNCHANGED <<regVars, nextCid, ops, call, cid, wrote, invoked, overlap, loopVars>>

\* podman.start_container(&container_id).await; on success the handle is
\* built (Utc::now() is read in EnvironmentHandle::new).
StartContainer(t) ==
    /\ pc[t] = "start_container"
    /\ \E ok \in BOOLEAN :
        /\ Log(t, <<"start_container", cid[t][2], ok>>)
        /\ IF ok
           THEN /\ containers' = [containers EXCEPT ![cid[t][2]] = "running"]
                /\ \E now \in Timestamps :
                    hnd' = [hnd EXCEPT ![t] = Some(BuildHandle(Args(t), cid[t][2], now))]
                /\ pc' = [pc EXCEPT ![t] = "register_wait"]
           ELSE /\ pc' = [pc EXCEPT ![t] = "remove_container"]
                /\ UNCHANGED <<containers, hnd>>
    /\ UNCHANGED <<regVars, nextCid, ops, call, cid, resp, returned, wrote, invoked, overlap, loopVars>>

\* let _ = podman.remove_container(&container_id, true).await, then the
\* start failure is returned.
RemoveContainer(t) ==
    /\ pc[t] = "remove_container"
    /\ \E ok \in BOOLEAN :
        /\ Log(t, <<"remove_container", cid[t][2], TRUE, ok>>)
        /\ containers' = IF ok THEN MapRemove(containers, cid[t][2]) ELSE containers
    /\ Return(t, Err(internal_error(<<"Failed to start container:">> \o EngineFailure)))
    /\ UNCHANGED <<regVars, nextCid, ops, call, cid, hnd, wrote, invoked, overlap, loopVars>>

\* registry.register(handle.clone()).await: self.environments.write().await
RegisterAcquire(t) ==
    /\ pc[t] = "register_wait"
    /\ CanWrite(t, "registry")
    /\ held' = [held EXCEPT ![t] = {<<"registry", "write">>}]
    /\ pc' = [pc EXCEPT ![t] = "register"]
    /\ UNCHANGED <<registry, regOk, engVars, ops, call, cid, hnd, resp, returned, trace, wrote, invoked, overlap, loopVars>>

\* handlers.rs lines 179-199: the descriptor returned
CreateResult(args, container_id, handle) ==
    [env_id |-> args.env_id, container_id |-> container_id,
     project_root |-> args.project_root, mount_path |-> args.mount_path,
     status |-> "running", created_at |-> to_rfc3339(handle.created_at),
     env_vars |-> IF args.env_vars # {} THEN Some(args.env_vars) ELSE None,
     ports |-> IF args.ports # <<>> THEN Some(args.ports) ELSE None]

\* handlers.rs lines 175-199: register's outcome turned into the handler's
CreateOutcome(t, registered) ==
    IF IsOk(registered) THEN Ok(CreateResult(Args(t), cid[t][2], hnd[t][2]))
    ELSE Err(internal_error(registered[2]))

\* register's critical section, first half (registry.rs lines 32-34): a
\* duplicate bails, dropping the guard, and create_environment returns the
\* error; otherwise the guard is kept for the insert.
RegisterCheck(t) ==
    /\ pc[t] = "register"
    /\ LET checked == register_check(registry, hnd[t][2]) IN
        IF IsOk(checked)
        THEN /\ pc' = [pc EXCEPT ![t] = "register_insert"]
             /\ UNCHANGED <<held, resp, returned>>
        ELSE /\ Return(t, CreateOutcome(t, checked))
             /\ Release(t)
    /\ UNCHANGED <<registry, regOk, engVars, ops, call, cid, hnd, trace, wrote, invoked, overlap, loopVars>>

\* register's critical section, second half (registry.rs lines 38-41), and
\* the rest of create_environment.
RegisterInsert(t) ==
    /\ pc[t] = "register_insert"
    /\ RegistryWrite(t, insert(registry, hnd[t][2]), Some(hnd[t][2].env_id))
    /\ Return(t, CreateOutcome(t, Ok(<<>>)))
    /\ Release(t)
    /\ UNCHANGED <<engVars, ops, call, cid, hnd, trace, invoked, overlap, loopVars>>

\* A result that reports exit code 0 when the engine reports none.
RunResultZeroExit(args, exec_result, now) ==
    [env_id |-> args.env_id, command |-> args.command,
     exit_code |-> IF IsSome(exec_result.exit_code) THEN exec_result.exit_code[2] ELSE 0,
     stdout |-> exec_result.stdout, stderr |-> exec_result.stderr,
     executed_at |-> to_rfc3339(now)]

\* handlers.rs lines 262-270
RunResult(args, exec_result, now) ==
    [env_id |-> args.env_id, command |-> args.command,
     exit_code |-> IF IsSome(exec_result.exit_code) THEN exec_result.exit_code[2] ELSE -1,
     stdout |-> exec_result.stdout, stderr |-> exec_result.stderr,
     executed_at |-> to_rfc3339(now)]

\* podman.exec_command(&handle.container_id, ["sh", "-c", command], None).await
ExecCommand(t) ==
    /\ pc[t] = "exec_command"
    /\ \E r \in ExecResults :
        /\ Log(t, <<"exec_command", hnd[t][2].container_id,
                    <<"sh", "-c", Args(t).command>>, None, IsOk(r)>>)
        /\ IF IsOk(r)
           THEN \E now \in Timestamps :
                    Return(t, Ok(RunResult(Args(t), r[2], now)))
           ELSE Return(t, Err(internal_error(
                    <<"Failed to execute command:">> \o r[2])))
    /\ UNCHANGED <<regVars, engVars, ops, call, cid, hnd, wrote, invoked, overlap, loopVars>>

\* ------------------------------------------------------ direct registry calls
IsWriter(method) == method \in {"register", "update", "remove", "clear"}

\* A caller invokes a method of the shared EnvironmentRegistry.
ApiCallOf(t, calls, max) ==
    /\ Idle(t)
    /\ ops < max
    /\ ops' = ops + 1
    /\ \E c \in calls : call' = [call EXCEPT ![t] = <<"api", c[1], c[2]>>]
    /\ pc' = [pc EXCEPT ![t] = "api_wait"]
    /\ resp' = [resp EXCEPT ![t] = None]
    /\ cid' = [cid EXCEPT ![t] = None]
    /\ hnd' = [hnd EXCEPT ![t] = None]
    /\ trace' = [trace EXCEPT ![t] = <<>>]
    /\ wrote' = [wrote EXCEPT ![t] = FALSE]
    /\ invoked' = [invoked EXCEPT ![t] = None]
    /\ returned' = [returned EXCEPT ![t] = None]
    /\ Started(t, FALSE)
    /\ UNCHANGED <<regVars, engVars, loopVars>>

ApiCall(t) == ApiCallOf(t, ApiCalls, MaxCalls)
SharedCall(t) == ApiCallOf(t, SharedCalls, MaxOps)

\* self.environments.read().await or .write().await
ApiAcquire(t) ==
    /\ pc[t] = "api_wait"
    /\ IF IsWriter(call[t][2]) THEN CanWrite(t, "registry") ELSE CanRead(t, "registry")
    /\ held' = [held EXCEPT ![t] =
                    {<<"registry", IF IsWriter(call[t][2]) THEN "write" ELSE "read">>}]
    /\ pc' = [pc EXCEPT ![t] = "api_cs"]
    /\ UNCHANGED <<registry, regOk, engVars, ops, call, cid, hnd, resp, returned, trace, wrote, invoked, overlap, loopVars>>

\* The method's critical section, up to the point where register, update
\* and clear go on to change the map.  keep tells whether the guard taken
\* for the check is still held for the change that follows.
ApiCSKeeping(t, keep) ==
    /\ pc[t] = "api_cs"
    /\ LET method == call[t][2]
           arg == call[t][3]
       IN CASE method \in {"register", "update"} ->
                LET checked == IF method = "register" THEN register_check(registry, arg)
                               ELSE update_check(registry, arg)
                IN /\ IF IsOk(checked)
                      THEN /\ pc' = [pc EXCEPT ![t] = "api_insert"]
                           /\ IF keep THEN held' = held ELSE Release(t)
                           /\ resp' = resp
                      ELSE Finish(t, checked) /\ Release(t)
                   /\ UNCHANGED <<registry, regOk, wrote, hnd>>
            [] method = "clear" ->
                /\ hnd' = [hnd EXCEPT ![t] = Some(list_all(registry)[2])]
                /\ IF list_all(registry)[2] # {}
                   THEN /\ pc' = [pc EXCEPT ![t] = "api_clear"]
                        /\ IF keep THEN held' = held ELSE Release(t)
                        /\ resp' = resp
                   ELSE Finish(t, list_all(registry)) /\ Release(t)
                /\ UNCHANGED <<registry, regOk, wrote>>
            [] method = "remove" ->
                /\ RegistryWrite(t, remove(registry, arg).envs, None)
                /\ Finish(t, remove(registry, arg).res) /\ Release(t)
                /\ hnd' = hnd
            [] OTHER ->
                /\ Finish(t, CASE method = "get" -> get(registry, arg)
                               [] method = "list" -> list(registry)
                               [] method = "list_all" -> list_all(registry)
                               [] method = "count" -> count(registry))
                /\ Release(t)
                /\ UNCHANGED <<registry, regOk, wrote, hnd>>
    /\ UNCHANGED <<engVars, ops, call, cid, trace, invoked, returned, overlap, loopVars>>

\* The check made under one guard and the change under none.
ApiCSReleasing(t) == ApiCSKeeping(t, FALSE)

\* registry.rs: one write guard spans each method's body.
ApiCS(t) == ApiCSKeeping(t, TRUE)

\* envs.insert(..) of register and update, then the guard is dropped.
ApiInsert(t) ==
    /\ pc[t] = "api_insert"
    /\ RegistryWrite(t, insert(registry, call[t][3]),
                     IF call[t][2] = "register" THEN Some(call[t][3].env_id) ELSE None)
    /\ Finish(t, Ok(<<>>))
    /\ Release(t)
    /\ UNCHANGED <<engVars, ops, call, cid, hnd, trace, invoked, returned, overlap, loopVars>>

\* A clear that returns the handles it collected and leaves the entries.
ApiClearKeeping(t) ==
    /\ pc[t] = "api_clear"
    /\ RegistryWrite(t, registry, None)
    /\ Finish(t, Ok(hnd[t][2]))
    /\ Release(t)
    /\ UNCHANGED <<engVars, ops, call, cid, hnd, trace, invoked, returned, overlap, loopVars>>

\* envs.clear() of clear (registry.rs line 102), which returns the handles
\* it collected.
ApiClear(t) ==
    /\ pc[t] = "api_clear"
    /\ RegistryWrite(t, EmptyMap, None)
    /\ Finish(t, Ok(hnd[t][2]))
    /\ Release(t)
    /\ UNCHANGED <<engVars, ops, call, cid, hnd, trace, invoked, returned, overlap, loopVars>>

\* ------------------------------------------------------------ specification
\* The steps of a request.
HandlerStep(t) ==
    \/ CloneRegistry(t)
    \/ GetAcquire(t)
    \/ GetCS(t)
    \/ Connect(t)
    \/ EnsureImage(t)
    \/ CreateContainer(t)
    \/ StartContainer(t)
    \/ RemoveContainer(t)
    \/ RegisterAcquire(t)
    \/ RegisterCheck(t)
    \/ RegisterInsert(t)
    \/ ExecCommand(t)

\* Requests handled by concurrent tasks while the registry is shared.
Next ==
    \E t \in Tasks :
        \/ HandleRequest(t)
        \/ HandlerStep(t)
        \/ SharedCall(t)
        \/ ApiAcquire(t)
        \/ ApiCS(t)
        \/ ApiInsert(t)
        \/ ApiClear(t)

Spec == Init /\ [][Next]_vars

\* Requests handled by concurrent tasks, the registry being reached through
\* the handlers alone.
NextRpc ==
    \E t \in Tasks :
        \/ HandleRequest(t)
        \/ HandlerStep(t)

SpecRpc == Init /\ [][NextRpc]_vars

\* Concurrent callers of the registry's methods alone.
NextRegistry ==
    \E t \in Tasks :
        \/ ApiCall(t)
        \/ ApiAcquire(t)
        \/ ApiCS(t)
        \/ ApiInsert(t)
        \/ ApiClear(t)

SpecRegistry == Init /\ [][NextRegistry]_vars

\* ------------------------------------------------ callers with a record
\* The handles of the registry's tests: a new one, a second id, and, for
\* update, the first set running and one that differs in every other field.
NewHandles ==
    {EnvironmentHandle_new("e1", 91, "/test/path", "alpine:latest", 1),
     EnvironmentHandle_new("e2", 92, "/test/path", "alpine:latest", 1)}

ChangedHandles ==
    {set_status(EnvironmentHandle_new("e1", 91, "/test/path", "alpine:latest", 1), Running),
     add_env_vars(EnvironmentHandle_new("e1", 93, "/proj", "debian", 2), {<<"K", "w">>})}

\* The calls of the registry's tests.
CallerCalls ==
    {x : x \in
        {<<"register", h>> : h \in NewHandles} \cup {<<"update", h>> : h \in ChangedHandles}
        \cup {<<"get", "e1">>, <<"remove", "e1">>, <<"clear", None>>, <<"count", None>>, <<"list", None>>}}

\* Every call that returned is in the record.
Recorded == \A t \in Tasks : pc[t] # "done"

\* A call returns to its caller, which notes the call, its result and the map
\* as the call left it, before any other call goes on.
Record(t) ==
    /\ pc[t] = "done"
    /\ call[t][1] = "api"
    /\ hist' = Append(hist, [task |-> t, method |-> call[t][2], arg |-> call[t][3],
                             res |-> resp[t][2], envs |-> registry])
    /\ pc' = [pc EXCEPT ![t] = "idle"]
    /\ UNCHANGED <<regVars, engVars, ops, call, cid, hnd, resp, trace, wrote, invoked, returned,
                   overlap, sent, stream, before, msg, lpc, inbox, out, shutdown_rx, ran, libVars>>

CallerCall(t) == Recorded /\ ApiCallOf(t, CallerCalls, MaxCallerCalls)
CallerAcquire(t) == Recorded /\ ApiAcquire(t)
CallerCS(t) == Recorded /\ ApiCS(t)
CallerInsert(t) == Recorded /\ ApiInsert(t)
CallerClear(t) == Recorded /\ ApiClear(t)

\* Concurrent callers of the registry's methods, and what they saw.
NextCallers ==
    \E t \in Tasks :
        \/ CallerCall(t)
        \/ CallerAcquire(t)
        \/ CallerCS(t)
        \/ CallerInsert(t)
        \/ CallerClear(t)
        \/ Record(t)

SpecCallers == Init /\ [][NextCallers]_vars

\* read_message is called on the reader: its result, the bytes it leaves and
\* the message it returned, if any.
ReadFrom(bytes) ==
    \E r \in {read_message(bytes)} :
    /\ before' = bytes
    /\ stream' = r.rest
    /\ msg' = Some(r.result)
    /\ inbox' = IF IsOk(r.result) /\ IsSome(r.result[2])
                THEN Append(inbox, r.result[2][2]) ELSE inbox

\* ------------------------------------------------------------ McpServer::run
\* The task that runs the loop; the handler runs in it.
ServerTask == "t1"

\* run returns.
Stop ==
    /\ lpc' = "stopped"
    /\ ran' = Some(Ok(<<>>))

\* A loop that does not look at the shutdown flag.
LoopTopIgnoringShutdown ==
    /\ lpc = "top"
    /\ lpc' = "read" /\ ran' = ran
    /\ UNCHANGED <<regVars, engVars, taskVars, sent, hist, libVars, stream, before, msg, inbox, out, shutdown_rx>>

\* The top of the loop: the shutdown flag is looked at.
LoopTop ==
    /\ lpc = "top"
    /\ IF shutdown_rx THEN Stop ELSE lpc' = "read" /\ ran' = ran
    /\ UNCHANGED <<regVars, engVars, taskVars, sent, hist, libVars, stream, before, msg, inbox, out, shutdown_rx>>

\* A loop that goes round again when read_message finds the stream ended.
LoopReadPastEnd ==
    /\ lpc = "read"
    /\ ReadFrom(stream)
    /\ \E result \in {read_message(stream).result} :
        IF ~IsOk(result) \/ result[2] = None THEN lpc' = "top" /\ ran' = ran
        ELSE lpc' = "handle" /\ ran' = ran
    /\ UNCHANGED <<regVars, engVars, taskVars, sent, hist, libVars, out, shutdown_rx>>

\* select!, first branch: read_message completes.
LoopRead ==
    /\ lpc = "read"
    /\ ReadFrom(stream)
    /\ \E result \in {read_message(stream).result} :
        IF ~IsOk(result) THEN lpc' = "top" /\ ran' = ran
        ELSE IF result[2] = None THEN Stop
        ELSE lpc' = "handle" /\ ran' = ran
    /\ UNCHANGED <<regVars, engVars, taskVars, sent, hist, libVars, out, shutdown_rx>>

\* select!, second branch: the shutdown channel changed.
LoopShutdown ==
    /\ lpc = "read"
    /\ shutdown_rx
    /\ Stop
    /\ UNCHANGED <<regVars, engVars, taskVars, sent, hist, libVars, stream, before, msg, inbox, out, shutdown_rx>>

\* serde_json::to_string(&response) (types.rs 19-29), abbreviated as the
\* requests are: the braces, the id (null when there is none), then the
\* result with one byte for each of its keys or the error with its code and
\* one byte for each part of its message.  The other of result and error is
\* skipped; no byte of it is a CR or an LF.
IdBytes(id) ==
    IF id = None THEN <<"n", "u", "l", "l">>
    ELSE IF id[2][1] = "num" THEN to_string(id[2][2])
    ELSE <<"\"", id[2][2], "\"">>
ErrorBytes(error) ==
    <<"e", "-">> \o to_string(0 - error.code) \o [i \in 1..Len(error.message) |-> "m"]
ResultBytes(result) == <<"r">> \o [i \in 1..Cardinality(DOMAIN result) |-> "k"]
response_to_string(response) ==
    <<"{">> \o IdBytes(response.id)
            \o (IF IsSome(response.result) THEN ResultBytes(response.result[2]) ELSE <<>>)
            \o (IF IsSome(response.error) THEN ErrorBytes(response.error[2]) ELSE <<>>)
            \o <<"}">>

\* A header that ends with its own line and no blank line after it.
response_header_one_line(len) == HeaderPrefix \o to_string(len) \o <<CR, LF>>

\* server.rs line 102: format!("Content-Length: {}\r\n\r\n", response_str.len())
response_header(len) == HeaderPrefix \o to_string(len) \o <<CR, LF, CR, LF>>

\* server.rs lines 101-106: the two write_all calls, the header and then
\* the serialized response, as the bytes that reach stdout.
written_bytes(response) ==
    LET response_str == response_to_string(response)
    IN response_header(Len(response_str)) \o response_str

\* self.handle_request(&message).await begins.
LoopHandle ==
    /\ lpc = "handle"
    /\ HandleRequestOf(ServerTask, parse_text(msg[2][2][2]))
    /\ lpc' = "handling"
    /\ UNCHANGED <<sent, hist, libVars, stream, before, msg, inbox, out, shutdown_rx, ran>>

\* The response written without the flush, the loop going back to its top.
LoopWriteUnflushed ==
    /\ lpc = "handling"
    /\ pc[ServerTask] = "done"
    /\ out' = Append(out, [request |-> call[ServerTask][2], response |-> resp[ServerTask][2],
                           bytes |-> written_bytes(resp[ServerTask][2]), flushed |-> FALSE])
    /\ lpc' = "top"
    /\ UNCHANGED <<regVars, engVars, taskVars, sent, hist, libVars, stream, before, msg, inbox, shutdown_rx, ran>>

\* A loop that drops the response and exits when shutdown was signalled
\* while the handler ran.
LoopWriteUnlessShutdown ==
    /\ lpc = "handling"
    /\ pc[ServerTask] = "done"
    /\ IF shutdown_rx THEN Stop /\ out' = out
       ELSE /\ out' = Append(out, [request |-> call[ServerTask][2],
                                   response |-> resp[ServerTask][2], bytes |-> written_bytes(resp[ServerTask][2]), flushed |-> FALSE])
            /\ lpc' = "flush" /\ ran' = ran
    /\ UNCHANGED <<regVars, engVars, taskVars, sent, hist, libVars, stream, before, msg, inbox, shutdown_rx>>

\* handle_request has returned: the header and the response are written to
\* stdout (lines 99-106).
LoopWrite ==
    /\ lpc = "handling"
    /\ pc[ServerTask] = "done"
    /\ out' = Append(out, [request |-> call[ServerTask][2], response |-> resp[ServerTask][2],
                           bytes |-> written_bytes(resp[ServerTask][2]), flushed |-> FALSE])
    /\ lpc' = "flush"
    /\ UNCHANGED <<regVars, engVars, taskVars, sent, hist, libVars, stream, before, msg, inbox, shutdown_rx, ran>>

\* A loop that ends once it has answered with an error.
LoopFlushStoppingOnError ==
    /\ lpc = "flush"
    /\ out' = [out EXCEPT ![Len(out)].flushed = TRUE]
    /\ IF IsSome(out[Len(out)].response.error) THEN Stop ELSE lpc' = "top" /\ ran' = ran
    /\ UNCHANGED <<regVars, engVars, taskVars, sent, hist, libVars, stream, before, msg, inbox, shutdown_rx>>

\* stdout.flush().await, and the loop goes round.
LoopFlush ==
    /\ lpc = "flush"
    /\ out' = [out EXCEPT ![Len(out)].flushed = TRUE]
    /\ lpc' = "top"
    /\ UNCHANGED <<regVars, engVars, taskVars, sent, hist, libVars, stream, before, msg, inbox, shutdown_rx, ran>>

\* The process-wide shutdown signal is sent.
ShutdownSignal ==
    /\ lpc \notin {"off", "stopped"}
    /\ ~shutdown_rx
    /\ shutdown_rx' = TRUE
    /\ UNCHANGED <<regVars, engVars, taskVars, sent, hist, libVars, stream, before, msg, lpc, inbox, out, ran>>

\* stdin holds what the client sent and run is called.
InitLoop ==
    /\ InitTasks /\ InitNoLib
    /\ sent \in ChunkSeqs(MaxFrames)
    /\ stream = Concat(sent)
    /\ before = <<>> /\ msg = None
    /\ lpc = "top"
    /\ inbox = <<>> /\ out = <<>>
    /\ shutdown_rx = FALSE
    /\ ran = None

\* The steps of run and of the handler it awaits.
LoopStep ==
    \/ LoopTop
    \/ LoopRead
    \/ LoopShutdown
    \/ LoopHandle
    \/ HandlerStep(ServerTask)
    \/ LoopWrite
    \/ LoopFlush

NextLoop == LoopStep \/ ShutdownSignal

\* The server loop over stdin and stdout; writes to stdout succeed.
SpecLoop == InitLoop /\ [][NextLoop]_vars

\* The loop when every step that can be taken is eventually taken: the
\* engine answers and stdout accepts what is written.
SpecLoopFair == SpecLoop /\ WF_vars(LoopStep)

\* ------------------------------------------------------- McpServer::shutdown
\* What a client asks of the server before it is shut down.
ShutdownInputs ==
    {x : x \in
        {Envelope(JStr("2.0"), JNum(7), JStr("create_environment"), p) : p \in CreateParamSets}
        \cup {Envelope(JStr("2.0"), JNum(7), JStr("run_command"),
                       Params(JStr("e1"), Absent, Absent, Absent, Absent, Absent, JStr("ls")))}}

\* handle_request(input) is called on the server.
ServerRequest(t) ==
    /\ ops < MaxServerCalls
    /\ \E input \in ShutdownInputs : HandleRequestOf(t, input)
    /\ UNCHANGED loopVars

\* shutdown() is called: the registry is cloned out of the server state
\* (lines 234-237), whose guard is dropped at the end of the block.
ShutdownStart(t) ==
    /\ Idle(t)
    /\ ops < MaxServerCalls
    /\ ops' = ops + 1
    /\ call' = [call EXCEPT ![t] = <<"shutdown">>]
    /\ pc' = [pc EXCEPT ![t] = "shutdown_wait"]
    /\ resp' = [resp EXCEPT ![t] = None]
    /\ cid' = [cid EXCEPT ![t] = None]
    /\ hnd' = [hnd EXCEPT ![t] = None]
    /\ trace' = [trace EXCEPT ![t] = <<>>]
    /\ wrote' = [wrote EXCEPT ![t] = FALSE]
    /\ invoked' = [invoked EXCEPT ![t] = None]
    /\ returned' = [returned EXCEPT ![t] = None]
    /\ Started(t, FALSE)
    /\ UNCHANGED <<regVars, engVars, loopVars>>

\* registry.clear().await: self.environments.write().await
ShutdownAcquire(t) ==
    /\ pc[t] = "shutdown_wait"
    /\ CanWrite(t, "registry")
    /\ held' = [held EXCEPT ![t] = {<<"registry", "write">>}]
    /\ pc' = [pc EXCEPT ![t] = "shutdown_clear"]
    /\ UNCHANGED <<registry, regOk, engVars, ops, call, cid, hnd, resp, returned, trace, wrote, invoked, overlap, loopVars>>

\* A shutdown that also removes the container of every handle it cleared.
ShutdownClearWithTeardown(t) ==
    /\ pc[t] = "shutdown_clear"
    /\ LET handles == list_all(registry)[2] IN
        /\ RegistryWrite(t, IF handles # {} THEN EmptyMap ELSE registry, None)
        /\ hnd' = [hnd EXCEPT ![t] = Some(handles)]
        /\ containers' = [c \in DOMAIN containers \ {h.container_id : h \in handles} |->
                            containers[c]]
    /\ Release(t)
    /\ pc' = [pc EXCEPT ![t] = "shutdown_log"]
    /\ UNCHANGED <<nextCid, ops, call, cid, resp, returned, trace, invoked, overlap, loopVars>>

\* The body of registry.clear() (registry.rs lines 98-105) under its write
\* guard: the handles are collected and, when there are any, the map is
\* cleared.
ShutdownClear(t) ==
    /\ pc[t] = "shutdown_clear"
    /\ LET handles == list_all(registry)[2] IN
        /\ RegistryWrite(t, IF handles # {} THEN EmptyMap ELSE registry, None)
        /\ hnd' = [hnd EXCEPT ![t] = Some(handles)]
    /\ Release(t)
    /\ pc' = [pc EXCEPT ![t] = "shutdown_log"]
    /\ UNCHANGED <<engVars, ops, call, cid, resp, returned, trace, invoked, overlap, loopVars>>

\* Lines 241-249: the handles cleared are logged and shutdown returns Ok(()).
ShutdownReturn(t) ==
    /\ pc[t] = "shutdown_log"
    /\ Finish(t, Ok(<<>>))
    /\ UNCHANGED <<regVars, engVars, ops, call, cid, hnd, returned, trace, wrote, invoked, overlap, loopVars>>

\* The server's owner calls its methods one at a time (shutdown takes
\* &mut self).
NextShutdown ==
    \/ ServerRequest(ServerTask)
    \/ HandlerStep(ServerTask)
    \/ ShutdownStart(ServerTask)
    \/ ShutdownAcquire(ServerTask)
    \/ ShutdownClear(ServerTask)
    \/ ShutdownReturn(ServerTask)

SpecShutdown == Init /\ [][NextShutdown]_vars

\* read_message called again and again on one reader, until it reports the
\* end of the stream.
ReadMessage ==
    /\ msg # Some(Ok(None))
    /\ ReadFrom(stream)
    /\ UNCHANGED <<regVars, engVars, taskVars, sent, hist, libVars, lpc, out, shutdown_rx, ran>>

InitFraming ==
    /\ InitTasks /\ InitNoLib
    /\ stream \in StreamsOf(MaxChunks) /\ sent = <<stream>>
    /\ before = <<>> /\ msg = None
    /\ lpc = "off"
    /\ inbox = <<>> /\ out = <<>>
    /\ shutdown_rx = FALSE
    /\ ran = None

NextFraming == ReadMessage

\* A reader over an arbitrary stream.
SpecFraming == InitFraming /\ [][NextFraming]_vars

\* --------------------------------------------------------------- properties
Done(t) == pc[t] = "done"
IsRpc(t) == call[t][1] = "rpc"
IsApi(t, method) == call[t][1] = "api" /\ call[t][2] = method
Invoked(t, handler) == IsRpc(t) /\ invoked[t] = Some(handler)

\* The response r carries an error with this code (and no result).
FailsWith(r, code) ==
    /\ IsSome(r)
    /\ r[2].result = None
    /\ IsSome(r[2].error)
    /\ r[2].error[2].code = code
MessageOf(r) == r[2].error[2].message
Succeeds(r) == IsSome(r) /\ IsSome(r[2].result) /\ r[2].error = None

\* The engine operations in a trace, and those that failed.
EngineOps(tr, op) == {i \in DOMAIN tr : tr[i][1] = op}
Failed(tr, op) == {i \in EngineOps(tr, op) : ~tr[i][Len(tr[i])]}

\* C1: among concurrent register calls for one env_id exactly one succeeds,
\* the others fail "already exists", and the registry holds one entry for it:
\* an id is registered exactly when one register call for it has succeeded
\* since it was last absent; a failed register says "already exists" and
\* changes nothing; and two callers registering the same id in an empty
\* registry end with one success, one failure and that single entry.
C1_RegisterExactlyOnce ==
    /\ \A e \in EnvIds : regOk[e] = IF e \in DOMAIN registry THEN 1 ELSE 0
    /\ \A t \in Tasks :
        (Done(t) /\ IsApi(t, "register") /\ ~IsOk(resp[t][2])) =>
            /\ resp[t][2][2] = <<"Environment", call[t][3].env_id, "already exists">>
            /\ ~wrote[t]
    /\ \A t, u \in Tasks :
        (/\ t # u /\ ops = 2 /\ Done(t) /\ Done(u)
         /\ IsApi(t, "register") /\ IsApi(u, "register")
         /\ call[t][3].env_id = call[u][3].env_id) =>
            /\ IsOk(resp[t][2]) # IsOk(resp[u][2])
            /\ DOMAIN registry = {call[t][3].env_id}
            /\ registry[call[t][3].env_id] = IF IsOk(resp[t][2]) THEN call[t][3] ELSE call[u][3]

\* Two overlapping register calls for e1 have both returned, one Ok and one Err.
C1_Witness ==
    /\ Done("t1") /\ Done("t2") /\ overlap["t1"] /\ overlap["t2"]
    /\ IsApi("t1", "register") /\ IsApi("t2", "register")
    /\ call["t1"][3].env_id = "e1" /\ call["t2"][3].env_id = "e1"
    /\ call["t1"][3] # call["t2"][3]
    /\ ~IsOk(resp["t1"][2]) /\ IsOk(resp["t2"][2])
    /\ Cardinality(DOMAIN registry) = 1

\* The create_environment inputs of Inputs whose parameters the handler
\* accepts, and the env_id each names.
ValidCreate(input) ==
    /\ input.json /\ input.jsonrpc = JStr("2.0") /\ input.method = JStr("create_environment")
    /\ input.params[1] = "obj"
    /\ input.params[2].env_id[1] = "str"
    /\ input.params[2].project_root[1] = "str"
    /\ input.params[2].image[1] = "str"
    /\ input.params[2].project_root[2] \in ExistingPaths
EnvIdOf(input) == input.params[2].env_id[2]

\* Task t is at the duplicate pre-check of a create_environment for an id
\* that is registered, and takes its step.
PrecheckOfRegistered(t) ==
    /\ pc[t] = "get" /\ Invoked(t, "CreateEnvironmentHandler")
    /\ EnvIdOf(call[t][2]) \in DOMAIN registry
    /\ pc'[t] # pc[t]

\* C2: a create_environment whose env_id is registered when the handler looks
\* it up fails with -32602 "already exists", having invoked no engine
\* operation and leaving the registry as it was.
C2_DuplicateCreateRejected ==
    [][\A t \in Tasks : PrecheckOfRegistered(t) =>
            /\ pc'[t] = "done"
            /\ FailsWith(resp'[t], -32602)
            /\ Contains(MessageOf(resp'[t]), "already exists")
            /\ Contains(MessageOf(resp'[t]), EnvIdOf(call[t][2]))
            /\ registry' = registry
            /\ trace'[t] = <<>> /\ ~wrote'[t]]_vars

\* The same request sent twice, one after the other: the first answered
\* "running", the second -32602 "already exists".
C2_Witness ==
    /\ Done("t1") /\ Done("t2") /\ ~overlap["t1"] /\ ~overlap["t2"]
    /\ IsRpc("t1") /\ call["t2"] = call["t1"] /\ ValidCreate(call["t1"][2])
    /\ Succeeds(resp["t1"]) /\ resp["t1"][2].result[2].status = "running"
    /\ FailsWith(resp["t2"], -32602)
    /\ Contains(MessageOf(resp["t2"]), "already exists")
    /\ DOMAIN registry = {EnvIdOf(call["t1"][2])}

\* C3 (as claimed): every create_environment that fails because its env_id is
\* a duplicate returns -32602 and leaves the registry unchanged, whether the
\* pre-check or register rejects it.
C3_DuplicateIsInvalidParams ==
    \A t \in Tasks :
        (/\ Done(t) /\ Invoked(t, "CreateEnvironmentHandler")
         /\ IsSome(resp[t][2].error)
         /\ Contains(MessageOf(resp[t]), "already exists")) =>
            (FailsWith(resp[t], -32602) /\ ~wrote[t])

\* All four engine steps of task t's create_environment succeeded.
EngineStepsSucceeded(t) ==
    /\ \A op \in {"connect", "ensure_image", "create_container", "start_container"} :
            EngineOps(trace[t], op) # {} /\ Failed(trace[t], op) = {}

MountPathOf(input) ==
    IF input.params[2].mount_path[1] = "str" THEN input.params[2].mount_path[2] ELSE "/workdir"
\* The supplied env_vars that are strings.
EnvVarsOf(input) ==
    IF input.params[2].env_vars[1] = "obj"
    THEN {<<e[1], e[2][2]>> : e \in {x \in input.params[2].env_vars[2] : x[2][1] = "str"}}
    ELSE {}

RejectedCreate(input) ==
    /\ input.json /\ input.jsonrpc = JStr("2.0") /\ input.method = JStr("create_environment")
    /\ \/ input.params \in {Absent, JNull}
       \/ /\ input.params[1] = "obj"
          /\ \/ input.params[2].env_id = Absent
             \/ input.params[2].project_root = Absent
             \/ input.params[2].image = Absent
             \/ /\ input.params[2].project_root[1] = "str"
                /\ input.params[2].project_root[2] \notin ExistingPaths

\* C5: such a request fails with -32602 before any side effect: it is
\* answered without the handler taking a lock, invoking an engine operation
\* or changing the registry.
C5_InvalidCreateRejected ==
    \A t \in Tasks :
        (IsRpc(t) /\ RejectedCreate(call[t][2])) =>
            /\ Done(t)
            /\ FailsWith(resp[t], -32602)
            /\ trace[t] = <<>> /\ ~wrote[t] /\ held[t] = {}

\* A create_environment naming a project_root that does not exist has been rejected.
C5_Witness ==
    \E t \in Tasks :
        /\ Done(t) /\ IsRpc(t) /\ RejectedCreate(call[t][2])
        /\ call[t][2].params[1] = "obj"
        /\ call[t][2].params[2].project_root = JStr("/nope")
        /\ FailsWith(resp[t], -32602)

\* The create_container event of a trace that assigned container id c.
Created(tr, c) == {i \in EngineOps(tr, "create_container") : tr[i][7] = Some(c)}

\* C6: when start_container fails after create_container succeeded, one
\* forced remove_container for the container just created is issued, and it
\* is issued before the request is answered; the answer is -32603 whether the
\* removal succeeds or not, and no handle is registered.
C6_StartFailureCleansUp ==
    \A t \in Tasks :
        (Invoked(t, "CreateEnvironmentHandler") /\ Failed(trace[t], "start_container") # {}) =>
            LET tr == trace[t]
                s == CHOOSE i \in Failed(tr, "start_container") : TRUE
                c == tr[s][2]
                removals == EngineOps(tr, "remove_container")
            IN /\ Created(tr, c) = {s - 1} /\ tr[s - 1][Len(tr[s - 1])]
               /\ ~wrote[t] /\ hnd[t] = None
               /\ \A e \in DOMAIN registry : registry[e].container_id # c
               /\ IF Done(t)
                  THEN /\ removals = {s + 1} /\ Len(tr) = s + 1
                       /\ tr[s + 1][2] = c /\ tr[s + 1][3] = TRUE
                       /\ FailsWith(resp[t], -32603)
                  ELSE /\ pc[t] = "remove_container" /\ removals = {}
                       /\ resp[t] = None

\* A create_environment whose start failed and whose removal failed too has
\* been answered -32603; the container is still there.
C6_Witness ==
    \E t \in Tasks :
        /\ Done(t) /\ Invoked(t, "CreateEnvironmentHandler")
        /\ Failed(trace[t], "start_container") # {}
        /\ Failed(trace[t], "remove_container") # {}
        /\ FailsWith(resp[t], -32603)
        /\ cid[t][2] \in DOMAIN containers
        /\ ~wrote[t]

\* The engine steps of create_environment.
CreateSteps == {"connect", "ensure_image", "create_container", "start_container"}

\* C7: a failed engine step of create_environment yields -32603; every
\* engine step is attempted at most once in a request, none after the one
\* that failed (but the removal), and the request does not change the registry.
C7_EngineFailureIsInternalError ==
    \A t \in Tasks :
        Invoked(t, "CreateEnvironmentHandler") =>
            /\ \A op \in CreateSteps : Cardinality(EngineOps(trace[t], op)) <= 1
            /\ \A op \in CreateSteps : \A i \in Failed(trace[t], op) :
                /\ \A j \in DOMAIN trace[t] : j > i => trace[t][j][1] = "remove_container"
                /\ ~wrote[t]
                /\ Done(t) \/ pc[t] = "remove_container"
                /\ Done(t) => FailsWith(resp[t], -32603)

\* A create_environment whose ensure_image failed has been answered -32603
\* while another environment stays registered.
C7_Witness ==
    \E t \in Tasks :
        /\ Done(t) /\ Invoked(t, "CreateEnvironmentHandler")
        /\ Failed(trace[t], "ensure_image") # {}
        /\ Len(trace[t]) = 2
        /\ FailsWith(resp[t], -32603)
        /\ registry # EmptyMap /\ ~wrote[t]

\* Task t is at the lookup of a run_command and takes its step.
RunLookupStep(t) ==
    /\ pc[t] = "get" /\ Invoked(t, "RunCommandHandler")
    /\ pc'[t] # pc[t]
\* The env_id a run_command input names.
RunEnvIdOf(input) == input.params[2].env_id[2]

\* C8: a run_command for an env_id that is not registered fails with -32602,
\* having invoked no engine operation and leaving the registry as it was.
C8_RunUnknownEnvironment ==
    [][\A t \in Tasks :
        (RunLookupStep(t) /\ RunEnvIdOf(call[t][2]) \notin DOMAIN registry) =>
            /\ pc'[t] = "done"
            /\ FailsWith(resp'[t], -32602)
            /\ Contains(MessageOf(resp'[t]), "not found")
            /\ trace'[t] = <<>> /\ ~wrote'[t]
            /\ registry' = registry]_vars

\* A run_command for e1 has been answered -32602 "not found" while e1 is
\* not registered.
C8_Witness ==
    \E t \in Tasks :
        /\ Done(t) /\ Invoked(t, "RunCommandHandler")
        /\ FailsWith(resp[t], -32602)
        /\ Contains(MessageOf(resp[t]), "Environment not found:")
        /\ "e1" \notin DOMAIN registry
        /\ trace[t] = <<>>

\* C9: a run_command for a registered environment whose status is not
\* Running fails with -32600 and a message naming that status, and invokes
\* no engine operation (exec in particular).
C9_RunNotRunning ==
    [][\A t \in Tasks :
        (/\ RunLookupStep(t)
         /\ RunEnvIdOf(call[t][2]) \in DOMAIN registry
         /\ registry[RunEnvIdOf(call[t][2])].status # Running) =>
            LET status == registry[RunEnvIdOf(call[t][2])].status IN
            /\ pc'[t] = "done"
            /\ FailsWith(resp'[t], -32600)
            /\ \A i \in DOMAIN StatusDebug(status) :
                    Contains(MessageOf(resp'[t]), StatusDebug(status)[i])
            /\ trace'[t] = <<>> /\ ~wrote'[t]
            /\ registry' = registry]_vars

\* A run_command for e1, registered with status Error("boom"), has been
\* answered -32600 with that status in the message.
C9_Witness ==
    \E t \in Tasks :
        /\ Done(t) /\ Invoked(t, "RunCommandHandler")
        /\ FailsWith(resp[t], -32600)
        /\ "e1" \in DOMAIN registry /\ registry["e1"].status = Error("boom")
        /\ Contains(MessageOf(resp[t]), "boom")
        /\ EngineOps(trace[t], "exec_command") = {}

\* The payloads that are not a request envelope: not JSON, or JSON without
\* the jsonrpc or the method field.
NotAnEnvelope(input) ==
    \/ ~input.json
    \/ input.jsonrpc = Absent
    \/ input.method = Absent

\* C10: such a payload is answered with error -32600, a null id and no
\* result, and no handler is invoked for it.
C10_UnparseableIsInvalidRequest ==
    \A t \in Tasks :
        (IsRpc(t) /\ NotAnEnvelope(call[t][2])) =>
            /\ Done(t)
            /\ FailsWith(resp[t], -32600)
            /\ resp[t][2].id = None
            /\ invoked[t] = None
            /\ trace[t] = <<>> /\ ~wrote[t] /\ held[t] = {}

\* A JSON object with an id and params but no method has been answered with
\* a null id.
C10_Witness ==
    \E t \in Tasks :
        /\ Done(t) /\ IsRpc(t)
        /\ call[t][2].json /\ call[t][2].method = Absent /\ call[t][2].id = JNum(7)
        /\ FailsWith(resp[t], -32600)
        /\ resp[t][2].id = None

\* The payloads that parse as a request envelope, and the id each carries.
IsEnvelope(input) == input.json /\ input.jsonrpc[1] = "str" /\ input.method[1] = "str"
IdOf(input) == IF input.id \in {Absent, JNull} THEN None ELSE Some(input.id)
\* The envelopes handle_request goes on to route.
IsRouted(input) == IsEnvelope(input) /\ input.jsonrpc = JStr("2.0")

\* C11: a parsed request whose jsonrpc is not "2.0" is answered -32600 with
\* the request's id (null when it has none) whether its method is in the
\* routing table or not, and no handler is invoked.
C11_WrongVersionIsInvalidRequest ==
    \A t \in Tasks :
        (IsRpc(t) /\ IsEnvelope(call[t][2]) /\ call[t][2].jsonrpc # JStr("2.0")) =>
            /\ Done(t)
            /\ FailsWith(resp[t], -32600)
            /\ resp[t][2].id = IdOf(call[t][2])
            /\ invoked[t] = None /\ returned[t] = None
            /\ trace[t] = <<>> /\ ~wrote[t] /\ held[t] = {}

\* A "1.0" request with no id for a method the table lacks, and one with id 7
\* for initialize, have both been answered -32600, each with its own id.
C11_Witness ==
    \E t, u \in Tasks :
        /\ Done(t) /\ IsRpc(t) /\ Done(u) /\ IsRpc(u)
        /\ call[t][2] = Envelope(JStr("1.0"), Absent, JStr("unknown_method"), Absent)
        /\ call[u][2] = Envelope(JStr("1.0"), JNum(7), JStr("initialize"), Absent)
        /\ FailsWith(resp[t], -32600) /\ resp[t][2].id = None
        /\ FailsWith(resp[u], -32600) /\ resp[u][2].id = Some(JNum(7))

\* The methods with a working handler.
Implemented == {"initialize", "create_environment", "run_command"}

\* C12: a routed request gets -32601 exactly when its method is not one of
\* initialize, create_environment and run_command (it is unknown, or
\* registered as unimplemented), whatever its params, the registry and the
\* engine do.
C12_MethodNotFoundIff ==
    \A t \in Tasks :
        (Done(t) /\ IsRpc(t) /\ IsRouted(call[t][2])) =>
            (FailsWith(resp[t], -32601) <=> call[t][2].method[2] \notin Implemented)

\* An unknown method has been answered -32601 and a run_command -32602.
C12_Witness ==
    \E t, u \in Tasks :
        /\ Done(t) /\ IsRpc(t) /\ call[t][2].method = JStr("unknown_method")
        /\ IsRouted(call[t][2]) /\ FailsWith(resp[t], -32601)
        /\ Done(u) /\ Invoked(u, "RunCommandHandler")
        /\ FailsWith(resp[u], -32602)

\* The methods registered as unimplemented.
Unimplemented == {"watch-commit", "note-append", "up", "down"}
\* The message has the word "unimplemented", in any case.
MentionsUnimplemented(message) ==
    \E i \in DOMAIN message : message[i] \in {"unimplemented", "Unimplemented", "UNIMPLEMENTED"}

\* C13 (as claimed): a request for a method registered as unimplemented is
\* answered -32601 with a message containing the word "unimplemented", and
\* neither the registry nor the engine is touched.
C13_UnimplementedSaysUnimplemented ==
    \A t \in Tasks :
        (Done(t) /\ IsRpc(t) /\ IsRouted(call[t][2]) /\ call[t][2].method[2] \in Unimplemented) =>
            /\ FailsWith(resp[t], -32601)
            /\ MentionsUnimplemented(MessageOf(resp[t]))
            /\ trace[t] = <<>> /\ ~wrote[t] /\ held[t] = {}

\* C14 (as claimed): every response carries the id of its request, null when
\* the request carries none, whatever the outcome.
C14_ResponseEchoesId ==
    \A t \in Tasks :
        (Done(t) /\ IsRpc(t)) => resp[t][2].id = IdOf(call[t][2])

\* C14 (amended): the response to a payload that parses as an envelope
\* carries the request's id, null when it has none, whatever the outcome;
\* the response to a payload that does not parse carries a null id even when
\* the payload has an id field.
C14_ParsedResponseEchoesId ==
    \A t \in Tasks :
        (Done(t) /\ IsRpc(t)) =>
            resp[t][2].id = IF IsEnvelope(call[t][2]) THEN IdOf(call[t][2]) ELSE None

\* A create_environment with id 7 has succeeded and a request without an id
\* has been answered; each response carries its request's id.
C14_Witness ==
    \E t, u \in Tasks :
        /\ Done(t) /\ Invoked(t, "CreateEnvironmentHandler") /\ Succeeds(resp[t])
        /\ call[t][2].id = JNum(7) /\ resp[t][2].id = Some(JNum(7))
        /\ Done(u) /\ IsRpc(u) /\ IsRouted(call[u][2]) /\ call[u][2].id = Absent
        /\ resp[u][2].id = None

\* C15: a response has exactly one of result and error; when the routed
\* handler returned an error the response's error is that error (code,
\* message and data) and there is no result; when it returned a value the
\* result is that value and there is no error.
C15_HandlerOutcomeVerbatim ==
    \A t \in Tasks :
        (Done(t) /\ IsRpc(t)) =>
            /\ IsSome(resp[t][2].result) # IsSome(resp[t][2].error)
            /\ IsSome(invoked[t]) <=> IsSome(returned[t])
            /\ IsSome(returned[t]) =>
                IF IsOk(returned[t][2])
                THEN resp[t][2].result = Some(returned[t][2][2]) /\ resp[t][2].error = None
                ELSE /\ resp[t][2].result = None
                     /\ IsSome(resp[t][2].error)
                     /\ resp[t][2].error[2].code = returned[t][2][2].code
                     /\ resp[t][2].error[2].message = returned[t][2][2].message
                     /\ resp[t][2].error[2].data = returned[t][2][2].data

\* A run_command returned an InvalidParams error and a create_environment a
\* value; each is what the response carries.
C15_Witness ==
    \E t, u \in Tasks :
        /\ Done(t) /\ Invoked(t, "RunCommandHandler")
        /\ IsSome(returned[t]) /\ ~IsOk(returned[t][2])
        /\ returned[t][2][2].code = -32602
        /\ resp[t][2].error = Some(returned[t][2][2])
        /\ Done(u) /\ Invoked(u, "CreateEnvironmentHandler")
        /\ IsSome(returned[u]) /\ IsOk(returned[u][2])
        /\ resp[u][2].result = Some(returned[u][2][2])

\* The header of a frame of n payload bytes.
HeaderOf(n) == HeaderPrefix \o to_string(n) \o <<CR, LF, CR, LF>>

\* C17: a reader fed "Content-Length: N", a blank line and N bytes that are
\* a text P returns exactly P, and leaves in the reader what follows P; for
\* every P the streams hold, the empty one and those with line ends or
\* two-byte characters included.
C17_FramedPayloadIsReturned ==
    msg # None =>
        \A n \in 0..Len(before) :
            LET payload == SubSeq(before, Len(HeaderOf(n)) + 1, Len(HeaderOf(n)) + n) IN
            (/\ starts_with(before, HeaderOf(n))
             /\ Len(before) >= Len(HeaderOf(n)) + n
             /\ valid_utf8(payload)) =>
                /\ msg = Some(Ok(Some(payload)))
                /\ stream = SubSeq(before, Len(HeaderOf(n)) + n + 1, Len(before))

\* The reader has returned "a", LF, "b" from its frame, and a two-byte
\* character from the frame after it.
C17_Witness ==
    /\ before = Frame(<<"0xC3", "0xA9">>) \o <<"x">>
    /\ msg = Some(Ok(Some(<<"0xC3", "0xA9">>)))
    /\ inbox = << <<"a", LF, "b">>, <<"0xC3", "0xA9">> >>
    /\ stream = <<"x">>

\* C18 (as claimed): read_message returns "no message" exactly when the
\* stream ends before any byte has been read; when the stream ends after
\* some bytes have been read (inside the headers or before the payload is
\* whole) it returns an error, neither "no message" nor a message.
C18_NoMessageOnlyOnCleanEnd ==
    msg # None =>
        /\ (msg = Some(Ok(None))) <=> (before = <<>>)
        /\ (before # <<>> /\ read_message(before).eof) => ~IsOk(msg[2])

\* The id the response to an input must carry.
ExpectedId(input) == IF IsEnvelope(input) THEN IdOf(input) ELSE None

PayloadOf(chunk) ==
    IF \E payload \in LoopPayloads : chunk = Frame(payload)
    THEN Some(CHOOSE payload \in LoopPayloads : chunk = Frame(payload))
    ELSE None
\* The payloads of the well-formed frames of a sequence of chunks, in order.
RECURSIVE GoodPayloads(_)
GoodPayloads(cs) ==
    IF cs = <<>> THEN <<>>
    ELSE IF IsSome(PayloadOf(Head(cs))) THEN <<PayloadOf(Head(cs))[2]>> \o GoodPayloads(Tail(cs))
    ELSE GoodPayloads(Tail(cs))
\* The frame cut short, which only the end of the stream can follow.
CutShort == SubSeq(Frame(Text("i")), 1, Len(Frame(Text("i"))) - 1)

\* C19 (as claimed): a frame read_message fails on gets no response and
\* does not end the loop; that frame alone is lost, every well-formed frame
\* is read and answered, and when the end of the stream ends the loop run
\* returns Ok.
C19_BadFrameLosesOnlyItself ==
    (/\ lpc = "stopped" /\ ~shutdown_rx
     /\ \A k \in 1..(Len(sent) - 1) : sent[k] # CutShort) =>
        /\ ran = Some(Ok(<<>>))
        /\ inbox = GoodPayloads(sent)
        /\ Len(out) = Len(inbox)

\* The exchanges that end in a protocol error: the payload is no envelope,
\* or its version is not "2.0".
IsProtocolError(input) == ~IsEnvelope(input) \/ input.jsonrpc # JStr("2.0")

\* The k-th exchange has ended in a protocol error whose response is written
\* and not yet flushed, and the client sent a well-formed frame after it
\* (the first k + 1 chunks sent are well-formed frames).
ProtocolErrorAnswered(k) ==
    /\ lpc = "flush" /\ Len(out) = k
    /\ IsProtocolError(out[k].request)
    /\ Len(sent) > k
    /\ \A j \in 1..(k + 1) : IsSome(PayloadOf(sent[j]))
\* The frame after the k-th has been read, handled as handle_request handles
\* its message, and answered.
FollowingAnswered(k) ==
    LET input == parse_text(PayloadOf(sent[k + 1])[2]) IN
    /\ Len(sent) > k /\ IsSome(PayloadOf(sent[k + 1]))
    /\ Len(out) > k
    /\ out[k + 1].request = input
    /\ out[k + 1].flushed
    /\ out[k + 1].response.id = ExpectedId(input)
    /\ IsSome(handle_request(input).response) =>
            out[k + 1].response = handle_request(input).response[2]

InFlight == lpc \in {"handle", "handling", "flush"}

C22_NoNewReadAfterShutdownObserved ==
    /\ [][(lpc = "top" /\ shutdown_rx) =>
            /\ lpc' = "stopped" /\ ran' = Some(Ok(<<>>))
            /\ UNCHANGED <<stream, msg, inbox, out, ops, pc, call, registry>>]_vars
    /\ [][(lpc = "read" /\ msg' = msg /\ stream' = stream /\ lpc' # lpc) =>
            /\ shutdown_rx
            /\ lpc' = "stopped" /\ ran' = Some(Ok(<<>>))
            /\ UNCHANGED <<inbox, out, ops, pc, call, registry>>]_vars
    /\ [][lpc = "stopped" =>
            UNCHANGED <<lpc, ran, stream, msg, inbox, out, ops, pc, call, registry>>]_vars

\* run has returned on the shutdown signal with a well-formed frame still
\* unread on stdin, after one message was answered.
C22_Witness ==
    /\ lpc = "stopped" /\ shutdown_rx
    /\ Len(out) = 1 /\ Len(inbox) = 1
    /\ stream = Frame(Text("i"))

\* Task t is in, or has returned from, a call of shutdown.
IsShutdown(t) == call[t] = <<"shutdown">>

\* C23: the step of shutdown that clears leaves the registry empty and has
\* collected every handle that was registered; no step of shutdown invokes
\* the engine or changes a container; shutdown returns Ok with the registry
\* empty and the container of every handle it removed still running.
C23_ShutdownClearsWithoutTeardown ==
    /\ [][\A t \in Tasks :
            (IsShutdown(t) /\ pc[t] = "shutdown_clear" /\ pc'[t] # pc[t]) =>
                /\ registry' = EmptyMap
                /\ hnd'[t] = Some({registry[e] : e \in DOMAIN registry})
                /\ Cardinality(hnd'[t][2]) = Cardinality(DOMAIN registry)]_vars
    /\ [][\A t \in Tasks :
            (IsShutdown(t) /\ call'[t] = call[t]) =>
                UNCHANGED <<containers, nextCid>>]_vars
    /\ [](\A t \in Tasks :
            IsShutdown(t) =>
                /\ trace[t] = <<>>
                /\ Done(t) =>
                    /\ resp[t] = Some(Ok(<<>>))
                    /\ registry = EmptyMap
                    /\ \A h \in hnd[t][2] :
                        /\ h.container_id \in DOMAIN containers
                        /\ containers[h.container_id] = "running")

\* shutdown has returned after clearing two registered environments.
C23_Witness ==
    /\ IsShutdown(ServerTask) /\ Done(ServerTask)
    /\ {h.env_id : h \in hnd[ServerTask][2]} = {"e1", "e2"}
    /\ wrote[ServerTask]

\* The fields of an EnvironmentHandle.
HandleFields ==
    {"env_id", "container_id", "project_root", "mount_path", "created_at", "status", "image",
     "env_vars"}

\* Call i of the record is an update or a remove for id, or a clear.
Touches(i, id) ==
    \/ hist[i].method = "update" /\ hist[i].arg.env_id = id
    \/ hist[i].method = "remove" /\ hist[i].arg = id
    \/ hist[i].method = "clear"

\* No update, remove or clear for id took effect between calls i and j.
Untouched(i, j, id) == \A k \in (i + 1)..(j - 1) : ~Touches(k, id)

\* Call i of the record is a register that succeeded.
Registered(i) == hist[i].method = "register" /\ IsOk(hist[i].res)

\* C24: when register(h) has succeeded and no update, remove or clear for
\* h.env_id has taken effect since, get(h.env_id) returns Ok of a handle
\* that has h's value in every one of the eight fields.
C24_RegisterGetRoundTrip ==
    \A i \in DOMAIN hist : \A j \in DOMAIN hist :
        (/\ i < j
         /\ Registered(i)
         /\ hist[j].method = "get" /\ hist[j].arg = hist[i].arg.env_id
         /\ Untouched(i, j, hist[i].arg.env_id)) =>
            /\ IsOk(hist[j].res)
            /\ DOMAIN hist[j].res[2] = HandleFields
            /\ \A f \in HandleFields : hist[j].res[2][f] = hist[i].arg[f]

\* One caller registered e1, e2 was registered, and another caller's get of
\* e1 returned the handle the first one registered.
C24_Witness ==
    /\ Len(hist) = 3
    /\ Registered(1) /\ hist[1].arg.env_id = "e1"
    /\ Registered(2) /\ hist[2].arg.env_id = "e2"
    /\ hist[3].method = "get" /\ hist[3].res = Ok(hist[1].arg)
    /\ hist[3].task # hist[1].task

\* The map as it was when call i of the record took effect.
Before(i) == IF i = 1 THEN EmptyMap ELSE hist[i - 1].envs

\* Call i of the record is an update that succeeded.
Updated(i) == hist[i].method = "update" /\ IsOk(hist[i].res)

\* C25: when register(h) has succeeded, update(h2) with h2.env_id = h.env_id
\* has succeeded after it, and no other update, remove or clear for the id
\* has taken effect, get(env_id) returns h2: each field has h2's value, so a
\* field h2 did not change still has h's value; the update leaves the number
\* of registered environments what it was and replaces that one entry only.
C25_UpdateReplacesWhole ==
    /\ \A i \in DOMAIN hist : \A j \in DOMAIN hist : \A k \in DOMAIN hist :
        (/\ i < j /\ j < k
         /\ Registered(i)
         /\ Updated(j) /\ hist[j].arg.env_id = hist[i].arg.env_id
         /\ Untouched(i, j, hist[i].arg.env_id)
         /\ hist[k].method = "get" /\ hist[k].arg = hist[i].arg.env_id
         /\ Untouched(j, k, hist[i].arg.env_id)) =>
            /\ IsOk(hist[k].res)
            /\ DOMAIN hist[k].res[2] = HandleFields
            /\ \A f \in HandleFields :
                /\ hist[k].res[2][f] = hist[j].arg[f]
                /\ hist[j].arg[f] = hist[i].arg[f] => hist[k].res[2][f] = hist[i].arg[f]
    /\ \A j \in DOMAIN hist :
        Updated(j) =>
            /\ count(hist[j].envs) = count(Before(j))
            /\ hist[j].envs = [Before(j) EXCEPT ![hist[j].arg.env_id] = hist[j].arg]

\* e1 was registered as created; an update replaced its handle by one with
\* another container, project root, image, creation time and environment;
\* a get of e1 then returned the replacement, with one environment registered
\* before and after the update.
C25_Witness ==
    /\ Len(hist) = 3
    /\ Registered(1) /\ hist[1].arg.container_id = 91 /\ hist[1].arg.status = Creating
    /\ Updated(2) /\ hist[2].arg.container_id = 93
    /\ hist[3].method = "get" /\ hist[3].res = Ok(hist[2].arg)
    /\ hist[3].res[2].mount_path = hist[1].arg.mount_path
    /\ count(hist[1].envs) = Ok(1) /\ count(hist[2].envs) = Ok(1)

\* C26: an update for an id that is not registered when it takes effect
\* returns the not-found error and leaves the map as it was; an update that
\* succeeds leaves the set of registered ids as it was; an update that has
\* passed its check finds its id still registered when it inserts, whatever
\* the other callers do, so an id removed or cleared stays absent.
C26_UpdateNeverInserts ==
    /\ \A i \in DOMAIN hist :
        hist[i].method = "update" =>
            /\ DOMAIN hist[i].envs = DOMAIN Before(i)
            /\ hist[i].arg.env_id \notin DOMAIN Before(i) =>
                /\ hist[i].res = NotFound(hist[i].arg.env_id)
                /\ hist[i].envs = Before(i)
    /\ \A t \in Tasks :
        (pc[t] = "api_insert" /\ call[t][2] = "update") =>
            call[t][3].env_id \in DOMAIN registry

\* One caller registered e1 and removed it; an update of e1 by the other
\* caller, begun while a call of the first was in progress, took effect
\* after the remove, failed and left the registry empty.
C26_Witness ==
    /\ Len(hist) = 3
    /\ Registered(1) /\ hist[1].arg.env_id = "e1"
    /\ hist[2].method = "remove" /\ IsOk(hist[2].res)
    /\ hist[3].method = "update" /\ hist[3].res = NotFound("e1")
    /\ hist[1].task = hist[2].task /\ hist[3].task # hist[2].task
    /\ overlap[hist[3].task]
    /\ registry = EmptyMap

\* No register of id succeeded between calls i and j of the record.
NotRegisteredBetween(i, j, id) ==
    \A k \in (i + 1)..(j - 1) : ~(Registered(k) /\ hist[k].arg.env_id = id)

\* C27: of the remove(id) calls that take effect after a register of id
\* succeeded, the first one, when no clear came before it, succeeds and
\* returns the handle stored at that moment (the registered one, if no
\* update replaced it); after any remove(id) has taken effect, every
\* remove(id) and every get(id) fails not found until a register of id
\* succeeds.  So one remove succeeds and no other, whether the calls follow
\* or overlap one another.
C27_RemoveSucceedsOnce ==
    /\ \A i \in DOMAIN hist : \A j \in DOMAIN hist :
        (/\ i < j
         /\ Registered(i)
         /\ hist[j].method = "remove" /\ hist[j].arg = hist[i].arg.env_id
         /\ \A k \in (i + 1)..(j - 1) :
                ~(hist[k].method = "remove" /\ hist[k].arg = hist[j].arg) /\ hist[k].method # "clear") =>
            /\ hist[j].res = Ok(Before(j)[hist[j].arg])
            /\ Untouched(i, j, hist[j].arg) => hist[j].res = Ok(hist[i].arg)
            /\ hist[j].arg \notin DOMAIN hist[j].envs
    /\ \A j \in DOMAIN hist : \A k \in DOMAIN hist :
        (/\ j < k
         /\ hist[j].method = "remove"
         /\ hist[k].method \in {"remove", "get"} /\ hist[k].arg = hist[j].arg
         /\ NotRegisteredBetween(j, k, hist[j].arg)) =>
            hist[k].res = NotFound(hist[j].arg)

\* e1 was registered and both callers called remove(e1), each while the
\* other's call was in progress: the one that took effect first got the
\* handle, the other the not-found error.
C27_Witness ==
    /\ Len(hist) = 3
    /\ Registered(1) /\ hist[1].arg.env_id = "e1"
    /\ hist[2].method = "remove" /\ hist[2].res = Ok(hist[1].arg)
    /\ hist[3].method = "remove" /\ hist[3].res = NotFound("e1")
    /\ hist[2].task # hist[3].task
    /\ \A t \in Tasks : overlap[t]

\* C28: clear returns exactly the handles that were registered when it took
\* effect, one for each registered id, as many as count would have returned,
\* and leaves the map empty; every count and list that takes effect after
\* it, before a register succeeds, returns 0 and no id.
C28_ClearReturnsAllAndEmpties ==
    /\ \A i \in DOMAIN hist :
        hist[i].method = "clear" =>
            /\ hist[i].res = Ok({Before(i)[e] : e \in DOMAIN Before(i)})
            /\ \A e \in DOMAIN Before(i) :
                    Cardinality({h \in hist[i].res[2] : h.env_id = e}) = 1
            /\ Ok(Cardinality(hist[i].res[2])) = count(Before(i))
            /\ hist[i].envs = EmptyMap
    /\ \A i \in DOMAIN hist : \A k \in DOMAIN hist :
        (/\ i < k
         /\ hist[i].method = "clear"
         /\ \A j \in (i + 1)..(k - 1) : ~Registered(j)) =>
            /\ hist[k].method = "count" => hist[k].res = Ok(0)
            /\ hist[k].method = "list" => hist[k].res = Ok({})

\* e1 was registered, clear returned its handle and nothing else, and the
\* count call after it returned 0.
C28_Witness ==
    /\ Len(hist) = 3
    /\ Registered(1) /\ hist[1].arg.env_id = "e1"
    /\ hist[2].method = "clear" /\ hist[2].res = Ok({hist[1].arg})
    /\ hist[3].method = "count" /\ hist[3].res = Ok(0)

\* C29: while the registry is reached through the handlers alone, every
\* stored handle has status Running, and no step changes the status of a
\* handle that stays stored.
C29_StoredHandlesAreRunning ==
    /\ [](\A e \in DOMAIN registry : registry[e].status = Running)
    /\ [][\A e \in DOMAIN registry \cap DOMAIN registry' :
            registry'[e].status = registry[e].status]_vars

\* Two create_environment requests have registered e1 and e2 and returned.
C29_Witness ==
    /\ DOMAIN registry = {"e1", "e2"}
    /\ \A t \in Tasks : Done(t) /\ IsOk(returned[t][2]) /\ hnd[t][2].status = Running
    /\ \A e \in DOMAIN registry : \E t \in Tasks : registry[e] = hnd[t][2]

\* Task t is in, or has returned from, a create_environment request.
IsCreate(t) == call[t][1] = "rpc" /\ invoked[t] = Some("CreateEnvironmentHandler")

\* The engine operations of create_environment, in the order of the code.
EngineOrder == <<"connect", "ensure_image", "create_container", "start_container">>

\* The suspension points of create_environment after its validation, in the
\* order of the code.
CreateRank ==
    [clone_registry |-> 1, get_wait |-> 2, get |-> 3, connect |-> 4, ensure_image |-> 5,
     create_container |-> 6, start_container |-> 7, register_wait |-> 8, register |-> 9,
     register_insert |-> 10]

\* Whether the engine operation logged as event succeeded.
Succeeded(event) == event[Len(event)]

\* C30: a create_environment request goes on past handle_request only if its
\* parameters and project root are valid; it then makes the duplicate
\* pre-check, connects, and invokes ensure_image, create_container and
\* start_container in that order, each only after the one before succeeded
\* (remove_container only after start_container failed); it reaches its
\* register call, and changes the registry, only after all of them
\* succeeded; and it goes from one step to the next one or returns.
C30_CreateStepsInOrder ==
    /\ [](\A t \in Tasks :
            IsCreate(t) =>
                /\ (~Idle(t) \/ trace[t] # <<>> \/ wrote[t]) => IsOk(CreateParams(Request(t)))
                /\ Len(trace[t]) <= Len(EngineOrder) + 1
                /\ \A i \in DOMAIN trace[t] :
                    /\ trace[t][i][1] =
                            IF i <= Len(EngineOrder) THEN EngineOrder[i] ELSE "remove_container"
                    /\ i > 1 => Succeeded(trace[t][i - 1]) = (i <= Len(EngineOrder))
                /\ (pc[t] \in {"register_wait", "register", "register_insert"} \/ wrote[t]) =>
                    /\ Len(trace[t]) = Len(EngineOrder)
                    /\ Succeeded(trace[t][Len(EngineOrder)]))
    /\ [][\A t \in Tasks :
            (IsCreate(t) /\ ~Idle(t) /\ call'[t] = call[t] /\ pc'[t] # pc[t]) =>
                /\ pc'[t] # "done" =>
                    \/ pc[t] = "start_container" /\ pc'[t] = "remove_container"
                    \/ /\ pc[t] \in DOMAIN CreateRank /\ pc'[t] \in DOMAIN CreateRank
                       /\ CreateRank[pc'[t]] = CreateRank[pc[t]] + 1
                /\ (pc[t] = "get" /\ pc'[t] = "connect") =>
                    Args(t).env_id \notin DOMAIN registry
                /\ trace'[t] # trace[t] =>
                    /\ Len(trace'[t]) = Len(trace[t]) + 1
                    /\ trace'[t][Len(trace'[t])][1] = pc[t]
                /\ registry' # registry => pc[t] = "register_insert"]_vars

\* A create_environment request has returned its result after the four
\* engine operations succeeded in order and its register changed the map.
C30_Witness ==
    \E t \in Tasks :
        /\ IsCreate(t) /\ Done(t) /\ IsOk(returned[t][2])
        /\ Len(trace[t]) = Len(EngineOrder)
        /\ \A i \in DOMAIN trace[t] : trace[t][i][1] = EngineOrder[i] /\ Succeeded(trace[t][i])
        /\ wrote[t]
        /\ Args(t).env_id \in DOMAIN registry

\* Where a handler is when its next step is a call of the container engine.
EnginePcs ==
    {"connect", "ensure_image", "create_container", "start_container", "remove_container",
     "exec_command"}

\* C31: a task whose engine call is in progress holds neither the server
\* state's lock nor the registry's; the step that makes an engine call holds
\* none before or after it; a step taken while holding the registry's lock
\* invokes no engine operation and changes no container; so a task whose
\* only competitors are in engine calls can take the registry's lock, for
\* reading and for writing.
C31_NoLockAcrossEngineCalls ==
    /\ [](\A t \in Tasks : pc[t] \in EnginePcs => held[t] = {})
    /\ [](\A u \in Tasks :
            (\A t \in Tasks \ {u} : pc[t] \in EnginePcs) =>
                /\ CanRead(u, "registry") /\ CanWrite(u, "registry")
                /\ CanRead(u, "state") /\ CanWrite(u, "state"))
    /\ [][\A t \in Tasks :
            /\ Len(trace'[t]) > Len(trace[t]) =>
                    /\ pc[t] \in EnginePcs
                    /\ held[t] = {} /\ held'[t] = {}
            /\ (held[t] # {} /\ pc'[t] # pc[t]) =>
                    /\ trace'[t] = trace[t]
                    /\ UNCHANGED <<containers, nextCid>>]_vars

\* One request's start_container is in progress while another task is inside
\* a registry critical section with the write lock.
C31_Witness ==
    \E t \in Tasks : \E u \in Tasks \ {t} :
        /\ pc[t] = "start_container" /\ held[t] = {}
        /\ <<"registry", "write">> \in held[u]

\* Task t is in, or has returned from, a run_command whose lookup found the
\* environment registered with status Running.
RunsOnRunning(t) == Invoked(t, "RunCommandHandler") /\ IsSome(hnd[t])

\* The exec calls task t made in this request.
ExecCalls(t) == EngineOps(trace[t], "exec_command")

\* C32 as stated: a run_command that found its environment running has, when
\* it returns, invoked the engine's exec exactly once.
C32_ExecExactlyOnce ==
    \A t \in Tasks : (RunsOnRunning(t) /\ Done(t)) => Cardinality(ExecCalls(t)) = 1

\* C32: a run_command that finds its environment registered with status
\* Running keeps the handle the lookup returned; it invokes exec at most
\* once, and exactly once when the connection to the engine succeeded, on
\* that handle's container_id with argv <<"sh", "-c", command>>; when exec
\* succeeds it returns what the engine reported (exit code, or -1 for none,
\* stdout, stderr); when the connection or exec fails it returns -32603; no
\* step of it changes the registry.
C32_RunCommandExecs ==
    /\ [](\A t \in Tasks :
            RunsOnRunning(t) =>
                /\ ~wrote[t]
                /\ hnd[t][2].env_id = RunEnvIdOf(call[t][2]) /\ hnd[t][2].status = Running
                /\ Cardinality(ExecCalls(t)) <= 1
                /\ \A i \in ExecCalls(t) :
                    /\ i = 2 /\ trace[t][1] = <<"connect", TRUE>>
                    /\ trace[t][i][2] = hnd[t][2].container_id
                    /\ trace[t][i][3] = <<"sh", "-c", Args(t).command>>
                /\ Done(t) =>
                    /\ trace[t][1] = <<"connect", TRUE>> => Cardinality(ExecCalls(t)) = 1
                    /\ IF Failed(trace[t], "connect") # {} \/ Failed(trace[t], "exec_command") # {}
                       THEN FailsWith(resp[t], -32603)
                       ELSE /\ Succeeds(resp[t])
                            /\ \E r \in ExecResults :
                                /\ IsOk(r)
                                /\ resp[t][2].result[2].stdout = r[2].stdout
                                /\ resp[t][2].result[2].stderr = r[2].stderr
                                /\ resp[t][2].result[2].exit_code =
                                        IF r[2].exit_code = None THEN -1 ELSE r[2].exit_code[2])
    /\ [][\A t \in Tasks :
            /\ (RunLookupStep(t) /\ IsSome(hnd'[t])) =>
                    hnd'[t] = Some(registry[RunEnvIdOf(call[t][2])])
            /\ (Invoked(t, "RunCommandHandler") /\ ~Idle(t) /\ pc'[t] # pc[t]) =>
                    registry' = registry]_vars

\* A run_command for e1 has returned exit code -1 and the engine's stderr
\* after one exec on the container of the handle the registry still holds.
C32_Witness ==
    \E t \in Tasks :
        /\ RunsOnRunning(t) /\ Done(t) /\ Succeeds(resp[t])
        /\ resp[t][2].result[2].exit_code = -1 /\ resp[t][2].result[2].stderr = "err"
        /\ Cardinality(ExecCalls(t)) = 1
        /\ "e1" \in DOMAIN registry /\ registry["e1"] = hnd[t][2]

\* Where the lines of a stream start.
LineStarts(bytes) == {1} \cup {i + 1 : i \in {j \in 1..(Len(bytes) - 1) : bytes[j] = LF}}

\* bytes is a run of whole lines of text, blank ones among them, none of
\* which is a Content-Length line.
SkippedLines(bytes) ==
    \/ bytes = <<>>
    \/ /\ bytes[Len(bytes)] = LF
       /\ valid_utf8(bytes)
       /\ \A i \in LineStarts(bytes) :
            ~starts_with(SubSeq(bytes, i, Len(bytes)), HeaderPrefix)

\* C33: a reader fed any run of lines that are not Content-Length lines,
\* blank ones included, then "Content-Length: N", a blank line and N bytes
\* that are a text P, returns exactly P and leaves in the reader what follows
\* P: what it returns and what it leaves are what the frame without the
\* lines before it gives.
C33_LeadingLinesAreSkipped ==
    msg # None =>
        \A k \in {j \in 0..Len(before) : j = 0 \/ before[j] = LF} :
            LET framed == SubSeq(before, k + 1, Len(before)) IN
            starts_with(framed, HeaderPrefix) =>
                \A n \in 0..Len(framed) :
                    LET payload == SubSeq(framed, Len(HeaderOf(n)) + 1, Len(HeaderOf(n)) + n) IN
                    (/\ starts_with(framed, HeaderOf(n))
                     /\ Len(framed) >= Len(HeaderOf(n)) + n
                     /\ valid_utf8(payload)
                     /\ SkippedLines(SubSeq(before, 1, k))) =>
                        /\ msg = Some(Ok(Some(payload)))
                        /\ stream = SubSeq(framed, Len(HeaderOf(n)) + n + 1, Len(framed))
                        /\ msg = Some(read_message(framed).result)
                        /\ stream = read_message(framed).rest

\* The reader has skipped a header line that is not the length and a blank
\* line, and returned the payload of the frame after them.
C33_Witness ==
    /\ before = <<"X", "-", "H", ":", " ", "1", CR, LF>> \o <<CR, LF>> \o Frame(<<"a", LF, "b">>)
    /\ msg = Some(Ok(Some(<<"a", LF, "b">>)))
    /\ stream = <<>>

\* ------------------------------------------------------------------ C34
\* The bytes stdout has received, in the order they were written.
Stdout == Concat([k \in 1..Len(out) |-> out[k].bytes])

\* A reader that follows the framing rules, applied until the bytes end:
\* the payloads it returns, closed by a mark if it meets anything else.
RECURSIVE ReadAll(_)
ReadAll(bytes) ==
    IF bytes = <<>> THEN <<>>
    ELSE LET r == read_message(bytes) IN
         IF IsOk(r.result) /\ r.result[2] # None
         THEN <<r.result[2][2]>> \o ReadAll(r.rest)
         ELSE <<"not a frame">>

MaxFileLen == 4
MaxApplications == 3

\* The bytes of a .gitignore: the six characters of ".cofer" kept as one,
\* a slash, the line ends, another character and a byte that is not UTF-8.
CoferName == ".cofer"
FileBytes == {CoferName, "/", LF, CR, "x", "0xC3"}
\* What <project_root>/.gitignore may hold before the first call.
Files == {None} \cup {Some(bytes) : bytes \in UNION {[1..n -> FileBytes] : n \in 0..MaxFileLen}}

\* BufRead::lines: the lines without their LF or CR LF, an error for a line
\* that is not UTF-8; a last line without LF is a line too.
RECURSIVE lines(_)
lines(bytes) ==
    IF bytes = <<>> THEN <<>>
    ELSE LET l == read_line(bytes)
             n == Len(l.line)
             cut == IF l.line[n] # LF THEN 0
                    ELSE IF n > 1 /\ l.line[n - 1] = CR THEN 2 ELSE 1
         IN <<IF l.ok THEN Ok(SubSeq(l.line, 1, n - cut)) ELSE Err(<<"invalid utf-8">>)>>
            \o lines(l.rest)

\* str::trim_end_matches(c)
RECURSIVE trim_end_matches(_, _)
trim_end_matches(line, c) ==
    IF line # <<>> /\ line[Len(line)] = c
    THEN trim_end_matches(SubSeq(line, 1, Len(line) - 1), c) ELSE line

\* git/mod.rs lines 97-109: some line that could be read is ".cofer" once
\* its trailing slashes are taken off.
already(file) ==
    /\ file # None
    /\ \E i \in DOMAIN lines(file[2]) :
        /\ IsOk(lines(file[2])[i])
        /\ trim_end_matches(lines(file[2])[i][2], "/") = <<CoferName>>

\* writeln!(f, ".cofer/") on a file opened with create and append.
append_entry(file) == Some((IF file = None THEN <<>> ELSE file[2]) \o <<CoferName, "/", LF>>)

\* ensure_gitignore_has_cofer: the file it leaves.
ensure_gitignore_has_cofer(file) == IF already(file) THEN file ELSE append_entry(file)

\* One call of ensure_gitignore_has_cofer(project_root); it returns Ok.
EnsureGitignore ==
    /\ Len(applied) < MaxApplications
    /\ gitignore' = ensure_gitignore_has_cofer(gitignore)
    /\ applied' = Append(applied, gitignore')
    /\ UNCHANGED <<regVars, engVars, taskVars, sent, stream, before, msg, lpc, inbox, out,
                   shutdown_rx, ran, hist, image, name_tag, git, gitlog>>

InitGitignore ==
    /\ InitTasks /\ InitNoLoop /\ NoImage /\ NoGit
    /\ gitignore \in Files
    /\ applied = <<>>

\* ensure_gitignore_has_cofer called again and again on one project root.
SpecGitignore == InitGitignore /\ [][EnsureGitignore]_vars

\* C35: a second ensure_gitignore_has_cofer on the same project root leaves
\* .gitignore as the first left it, whatever the file held at first.
C35_EnsureIsIdempotent == Len(applied) >= 2 => applied[2] = applied[1]

\* ------------------------------------------------------ image references
MaxImageLen == 5

\* The characters of an image reference: a letter, the colon, the slash,
\* a digit and a dot.
ImageChars == {"a", ":", "/", "5", "."}
Images == UNION {[1..n -> ImageChars] : n \in 0..MaxImageLen}

\* str::rfind(':'): the place of the last one, or None.
rfind(text, c) ==
    IF \E i \in DOMAIN text : text[i] = c
    THEN Some(CHOOSE i \in DOMAIN text : text[i] = c /\ \A j \in (i + 1)..Len(text) : text[j] # c)
    ELSE None
\* str::contains(char)
contains(text, c) == \E i \in DOMAIN text : text[i] = c
\* char::is_numeric, on the characters above
is_numeric(c) == IsDigit(c)
\* "latest"
Latest == <<"l", "a", "t", "e", "s", "t">>

\* podman/image.rs lines 143-155
parse_image_tag(reference) ==
    LET pos == rfind(reference, ":")
        after_colon == SubSeq(reference, pos[2] + 1, Len(reference))
    IN IF /\ pos # None
          /\ ~contains(after_colon, "/")
          /\ ~(\A i \in DOMAIN after_colon : is_numeric(after_colon[i]))
       THEN <<SubSeq(reference, 1, pos[2] - 1), after_colon>>
       ELSE <<reference, Latest>>

\* One call of parse_image_tag(image).
ParseImageTag ==
    /\ name_tag = None
    /\ name_tag' = Some(parse_image_tag(image))
    /\ UNCHANGED <<regVars, engVars, taskVars, sent, stream, before, msg, lpc, inbox, out,
                   shutdown_rx, ran, hist, gitignore, applied, image, git, gitlog>>

InitImage ==
    /\ InitTasks /\ InitNoLoop /\ NoGitignore /\ NoGit
    /\ image \in Images
    /\ name_tag = None

\* parse_image_tag applied to an image reference.
SpecImage == InitImage /\ [][ParseImageTag]_vars

\* The text after the last colon of the reference, or None without a colon.
AfterLastColon ==
    IF rfind(image, ":") = None THEN None
    ELSE Some(SubSeq(image, rfind(image, ":")[2] + 1, Len(image)))

\* C36: parse_image_tag returns the reference cut at its last colon, name
\* before and tag after, whenever the text after that colon is not empty
\* and holds no "/"; it returns the whole reference and "latest" when there
\* is no colon or when a "/" follows the last colon (a host:port and a path).
C36_SplitsAtTagColon ==
    name_tag # None =>
        /\ (AfterLastColon # None /\ AfterLastColon[2] # <<>> /\ ~contains(AfterLastColon[2], "/")) =>
                name_tag[2] = <<SubSeq(image, 1, rfind(image, ":")[2] - 1), AfterLastColon[2]>>
        /\ (AfterLastColon = None \/ contains(AfterLastColon[2], "/")) =>
                name_tag[2] = <<image, Latest>>

\* ------------------------------------------------------------------ C37
\* The containers the engine created for task t's invocation, and those a
\* forced removal was issued for.
CreatedBy(t) ==
    {trace[t][i][7][2] : i \in {j \in EngineOps(trace[t], "create_container") : trace[t][j][8]}}
RemovalIssued(t) ==
    {trace[t][i][2] : i \in {j \in EngineOps(trace[t], "remove_container") : trace[t][j][3]}}
StoredContainers == {registry[e].container_id : e \in DOMAIN registry}

\* C37: when a create_environment invocation has returned, each container
\* the engine created for it is the container_id of a handle in the registry
\* or had a forced removal issued for it.
C37_NoContainerLeft ==
    \A t \in Tasks :
        (IsCreate(t) /\ Done(t)) => CreatedBy(t) \subseteq (StoredContainers \cup RemovalIssued(t))

\* ------------------------------------------------------------------ C38
\* C38: for a clear and a register that succeeded, whichever way the two
\* calls overlapped: if the register took effect first (and no update,
\* remove or other clear for its id came between) its handle is in the list
\* clear returned and its id is not in the map clear left; if it took effect
\* after the clear its handle is in the map once register returns, and is in
\* clear's list only if an earlier register had put the same handle there.
C38_ClearLosesNoHandle ==
    \A i \in DOMAIN hist : \A j \in DOMAIN hist :
        (hist[i].method = "clear" /\ Registered(j)) =>
            LET h == hist[j].arg
                id == hist[j].arg.env_id
            IN /\ (j < i /\ Untouched(j, i, id)) =>
                    /\ h \in hist[i].res[2]
                    /\ id \notin DOMAIN hist[i].envs
               /\ j > i =>
                    /\ id \in DOMAIN hist[j].envs /\ hist[j].envs[id] = h
                    /\ h \in hist[i].res[2] =>
                            \E k \in 1..(i - 1) : Registered(k) /\ hist[k].arg = h

\* A clear that overlapped the registers of another caller: the handle
\* registered before it took effect is the list it returned, the one
\* registered after it is alone in the map.
C38_Witness ==
    /\ Len(hist) = 3
    /\ Registered(1) /\ hist[1].arg.env_id = "e1"
    /\ hist[2].method = "clear" /\ hist[2].res = Ok({hist[1].arg}) /\ hist[2].envs = EmptyMap
    /\ Registered(3) /\ hist[3].arg.env_id = "e2"
    /\ DOMAIN hist[3].envs = {"e2"} /\ registry = hist[3].envs
    /\ hist[2].task # hist[1].task /\ hist[3].task = hist[1].task
    /\ overlap[hist[2].task]

\* ------------------------------------------------------------------ C39
\* The frames cut short that the client may send last.
CutInPayload == SubSeq(Frame(Text("i")), 1, Len(Frame(Text("i"))) - 1)
CutInHeader == SubSeq(Frame(Text("i")), 1, Len(HeaderPrefix) - 1)

\* C39: stdin holds what was sent and then ends; whatever was sent, a frame
\* cut short in its header or payload included, run eventually returns, and
\* it returns Ok; a read that finds nothing left ends the loop with Ok and
\* writes nothing; a read that fails leaves the loop running.
C39_EndOfStreamEndsRun ==
    /\ <>(lpc = "stopped" /\ ran = Some(Ok(<<>>)))
    /\ [](lpc = "stopped" <=> ran = Some(Ok(<<>>)))
    /\ [](ran \in {None, Some(Ok(<<>>))})
    /\ [][(lpc = "read" /\ stream = <<>> /\ lpc' # lpc) =>
            /\ lpc' = "stopped" /\ ran' = Some(Ok(<<>>))
            /\ out' = out /\ inbox' = inbox]_vars
    /\ [][(lpc = "read" /\ lpc' = "top") =>
            /\ ~IsOk(msg'[2]) /\ ran' = None /\ out' = out]_vars

\* A frame and then a frame cut short in its payload were sent and no
\* shutdown was signalled: the first was answered, the read of the second
\* failed, the next read found the end, and run returned Ok.
C39_Witness ==
    /\ sent = <<Frame(Text("i")), CutInPayload>>
    /\ ~shutdown_rx
    /\ lpc = "stopped" /\ ran = Some(Ok(<<>>))
    /\ stream = <<>> /\ before = <<>> /\ msg = Some(Ok(None))
    /\ Len(inbox) = 1 /\ Len(out) = 1 /\ out[1].flushed

\* ------------------------------------------------------------ git module
MaxGitCalls == 3

\* The paths under the project root the git module names.
CoferPath == ".cofer"
RemoteGitPath == ".cofer/remote.git"
WorktreesPath == ".cofer/worktrees"
BranchNames == {"a", "b"}
\* base_ref: one that resolves to a commit of the project and one that does not.
BaseRefs == {"main", "nope"}
\* format!("refs/heads/cofer/{}", branch_name)
RefName(name) == <<"refs/heads/cofer", name>>

\* The project root is a git repository.  at[p] tells what is at path p:
\* nothing, a bare repository, or a directory that is no repository; remote
\* is the url of the project's remote "cofer", refs[p] the references of
\* the bare repository at p, worktrees the names under .cofer/worktrees.
Gits ==
    {[at |-> [p \in {CoferPath, RemoteGitPath} |-> IF p = CoferPath THEN c ELSE r],
      remote |-> u,
      refs |-> [p \in {CoferPath, RemoteGitPath} |-> {}],
      worktrees |-> {}] :
        c \in {"absent", "bare", "dir"}, r \in {"absent", "bare"},
        u \in {None, Some(CoferPath), Some(RemoteGitPath)}}
\* What the project root may hold before the first call: nothing is inside
\* a .cofer that is not there.
InitialGits == {g \in Gits : g.at[CoferPath] = "absent" => g.at[RemoteGitPath] = "absent"}

\* git/mod.rs lines 8-30: Repository::init_opts(bare) at .cofer when nothing
\* is there, open_bare otherwise; then the remote "cofer" is added with the
\* url of .cofer unless the project has one.  opened is the bare repository
\* initialised or opened.
init_remote_repository(g) ==
    IF g.at[CoferPath] = "dir"
    THEN [git |-> g, res |-> Err(<<"failed to open repository:", CoferPath>>), opened |-> None]
    ELSE [git |-> [g EXCEPT !.at[CoferPath] = "bare",
                            !.remote = IF g.remote = None THEN Some(CoferPath) ELSE g.remote],
          res |-> Ok(<<>>), opened |-> Some(CoferPath)]

\* git/mod.rs lines 45-65: the base is resolved, the remote "cofer" found,
\* and +<oid>:refs/heads/cofer/<name> pushed to its url.  opened is the
\* repository pushed to.
create_branch(g, base_ref, branch_name) ==
    IF base_ref # "main"
    THEN [git |-> g, res |-> Err(<<"cannot resolve base ref:", base_ref>>), opened |-> None]
    ELSE IF g.remote = None
    THEN [git |-> g, res |-> Err(<<"remote 'cofer' not found (run init first)">>), opened |-> None]
    ELSE IF g.at[g.remote[2]] # "bare"
    THEN [git |-> g, res |-> Err(<<"git push to 'cofer' failed">>), opened |-> None]
    ELSE [git |-> [g EXCEPT !.refs[g.remote[2]] = @ \cup {RefName(branch_name)}],
          res |-> Ok(<<>>), opened |-> g.remote]

\* git/mod.rs lines 67-91: open_bare of .cofer/remote.git, find_reference of
\* refs/heads/cofer/<name> in it; the path is returned as it is when it
\* exists, and after the worktree is added otherwise (adding it succeeds).
create_worktree_from_cofer(g, branch_name) ==
    IF g.at[RemoteGitPath] # "bare"
    THEN [git |-> g, res |-> Err(<<"not a bare repo:", RemoteGitPath>>), opened |-> None]
    ELSE IF RefName(branch_name) \notin g.refs[RemoteGitPath]
    THEN [git |-> g, res |-> Err(<<"reference", RefName(branch_name), "not found">>),
          opened |-> Some(RemoteGitPath)]
    ELSE [git |-> [g EXCEPT !.worktrees = @ \cup {branch_name}],
          res |-> Ok(<<WorktreesPath, branch_name>>), opened |-> Some(RemoteGitPath)]

\* A call of the git module returns: the repositories as it left them, and
\* the call noted with its result and the bare repository it used.
GitCall(op, args, r) ==
    /\ Len(gitlog) < MaxGitCalls
    /\ git' = r.git
    /\ gitlog' = Append(gitlog, [op |-> op, args |-> args, res |-> r.res, opened |-> r.opened])
    /\ UNCHANGED <<regVars, engVars, taskVars, sent, stream, before, msg, lpc, inbox, out,
                   shutdown_rx, ran, hist, gitignore, applied, image, name_tag>>

InitRemoteRepository == GitCall("init_remote_repository", <<>>, init_remote_repository(git))
CreateBranch ==
    \E base_ref \in BaseRefs : \E branch_name \in BranchNames :
        GitCall("create_branch", <<base_ref, branch_name>>, create_branch(git, base_ref, branch_name))
CreateWorktreeFromCofer ==
    \E branch_name \in BranchNames :
        GitCall("create_worktree_from_cofer", <<branch_name>>,
                create_worktree_from_cofer(git, branch_name))

InitGit ==
    /\ InitTasks /\ InitNoLoop /\ NoGitignore /\ NoImage
    /\ git \in InitialGits
    /\ gitlog = <<>>

NextGit == InitRemoteRepository \/ CreateBranch \/ CreateWorktreeFromCofer

\* The functions of the git module called one after another on one project.
SpecGit == InitGit /\ [][NextGit]_vars

\* C40: when init_remote_repository and then create_branch(base, name) have
\* succeeded, the create_worktree_from_cofer(name) that follows opens the
\* bare repository init_remote_repository initialised and create_branch
\* pushed to, that repository holds refs/heads/cofer/<name>, and the call
\* returns .cofer/worktrees/<name>.
C40_WorktreeFromInitialisedRepository ==
    (/\ Len(gitlog) = 3
     /\ gitlog[1].op = "init_remote_repository" /\ IsOk(gitlog[1].res)
     /\ gitlog[2].op = "create_branch" /\ IsOk(gitlog[2].res)
     /\ gitlog[3].op = "create_worktree_from_cofer"
     /\ gitlog[3].args[1] = gitlog[2].args[2]) =>
        /\ gitlog[3].opened = gitlog[1].opened
        /\ gitlog[3].opened = gitlog[2].opened
        /\ RefName(gitlog[3].args[1]) \in git.refs[gitlog[3].opened[2]]
        /\ gitlog[3].res = Ok(<<WorktreesPath, gitlog[3].args[1]>>)
====
